---- MODULE Spec2Model ----
(***************************************************************************)
(* vc-config-backup-report/generate_backup_report_csv.py: the extraction   *)
(* engine that flattens per-host backup payloads into report rows.         *)
(*                                                                         *)
(* JSON values are tagged records; a mapping is the sequence of its        *)
(* entries in insertion order (Python dicts keep it).  Strings are TLA+    *)
(* strings, read character by character with SubSeq.                       *)
(***************************************************************************)
EXTENDS Integers, Sequences, FiniteSets, TLC

VARIABLES
    pc,        \* position of the running call
    all_data,  \* build_rows: the host records, as the caller's objects are now
    snapshot,  \* build_rows: the host records as they were when the call began
    idx,       \* build_rows: index of the next host record of the for loop
    rows,      \* build_rows: the local list `rows`
    arg,       \* the argument of the function under call (pure-function runs)
    ret,       \* the results returned so far, oldest first
    padYear    \* whether the platform's strftime pads %Y to four digits

vars == <<pc, all_data, snapshot, idx, rows, arg, ret, padYear>>

----------------------------------------------------------------------------
(* JSON values                                                             *)

JNull == [t |-> "null"]
JBool(b) == [t |-> "bool", b |-> b]
JInt(n) == [t |-> "int", n |-> n]
\* a JSON number with a fraction or an exponent: (n + m/1000) * 10^e
JFloat(n, m, e) == [t |-> "float", n |-> n, m |-> m, e |-> e]
JStr(s) == [t |-> "str", s |-> s]
JList(l) == [t |-> "list", l |-> l]
JDict(d) == [t |-> "dict", d |-> d]
KV(k, v) == [k |-> k, v |-> v]

IsDict(j) == j.t = "dict"
IsList(j) == j.t = "list"
IsStr(j) == j.t = "str"
IsBool(j) == j.t = "bool"
\* isinstance(x, int): bool is a subclass of int
IsIntLike(j) == j.t = "int" \/ j.t = "bool"

\* an exception leaving a function
Raise(exc) == [t |-> "raise", exc |-> exc]
IsRaise(r) == r.t = "raise"

\* key in d
HasKey(j, k) == \E i \in 1..Len(j.d) : j.d[i].k = k
\* d.get(k, default)
GetD(j, k, default) ==
    IF HasKey(j, k) THEN j.d[CHOOSE i \in 1..Len(j.d) : j.d[i].k = k].v ELSE default
\* d.get(k)
Get(j, k) == GetD(j, k, JNull)
\* d[k] = v on the object d: the object afterwards
SetAlways(j, k, v) ==
    IF HasKey(j, k) THEN JDict([i \in 1..Len(j.d) |-> IF j.d[i].k = k THEN KV(k, v) ELSE j.d[i]])
    ELSE JDict(Append(j.d, KV(k, v)))
\* d.setdefault(k, v) on the object d: the object afterwards
SetDefault(j, k, v) == IF HasKey(j, k) THEN j ELSE JDict(Append(j.d, KV(k, v)))

\* bool(x)
Truthy(j) ==
    CASE j.t = "null" -> FALSE
      [] j.t = "bool" -> j.b
      [] j.t = "int" -> j.n # 0
      [] j.t = "float" -> j.n # 0 \/ j.m # 0
      [] j.t = "str" -> j.s # ""
      [] j.t = "list" -> j.l # <<>>
      [] j.t = "dict" -> j.d # <<>>

\* a or b
PyOr(a, b) == IF Truthy(a) THEN a ELSE b

\* value in (None, "", [])
IsEmptyEquivalent(j) ==
    \/ j.t = "null"
    \/ (j.t = "str" /\ j.s = "")
    \/ (j.t = "list" /\ j.l = <<>>)

----------------------------------------------------------------------------
(* Characters and strings                                                  *)

CharAt(s, i) == SubSeq(s, i, i)
IsDigit(c) == c \in {"0", "1", "2", "3", "4", "5", "6", "7", "8", "9"}
DigitVal(c) ==
    CASE c = "0" -> 0 [] c = "1" -> 1 [] c = "2" -> 2 [] c = "3" -> 3
      [] c = "4" -> 4 [] c = "5" -> 5 [] c = "6" -> 6 [] c = "7" -> 7
      [] c = "8" -> 8 [] c = "9" -> 9

AllDigits(s) == Len(s) > 0 /\ \A i \in 1..Len(s) : IsDigit(CharAt(s, i))

RECURSIVE DigitsVal(_)
DigitsVal(s) ==
    IF s = "" THEN 0
    ELSE DigitsVal(SubSeq(s, 1, Len(s) - 1)) * 10 + DigitVal(CharAt(s, Len(s)))

\* s.strip(), for the blanks the payloads carry
RECURSIVE Strip(_)
Strip(s) ==
    IF s = "" THEN s
    ELSE IF CharAt(s, 1) = " " THEN Strip(SubSeq(s, 2, Len(s)))
    ELSE IF CharAt(s, Len(s)) = " " THEN Strip(SubSeq(s, 1, Len(s) - 1))
    ELSE s

\* s with every letter of `from` replaced by the letter at its place in `to`
RECURSIVE Translate(_, _, _)
Translate(s, from, to) ==
    IF s = "" THEN ""
    ELSE (IF \E i \in 1..Len(from) : CharAt(from, i) = CharAt(s, 1)
          THEN CharAt(to, CHOOSE i \in 1..Len(from) : CharAt(from, i) = CharAt(s, 1))
          ELSE CharAt(s, 1))
         \o Translate(SubSeq(s, 2, Len(s)), from, to)
\* s.upper()
Upper(s) == Translate(s, "abcdefghijklmnopqrstuvwxyz", "ABCDEFGHIJKLMNOPQRSTUVWXYZ")
\* s.lower()
Lower(s) == Translate(s, "ABCDEFGHIJKLMNOPQRSTUVWXYZ", "abcdefghijklmnopqrstuvwxyz")

\* the first index at which sub occurs in s, 0 when it does not
FindSub(s, sub) ==
    LET hits == {i \in 1..(Len(s) - Len(sub) + 1) : SubSeq(s, i, i + Len(sub) - 1) = sub}
    IN IF hits = {} THEN 0 ELSE CHOOSE i \in hits : \A j \in hits : i <= j

\* f"{n:02d}" and wider
Pad(n, width) ==
    LET s == ToString(n)
    IN IF Len(s) >= width THEN s
       ELSE SubSeq("0000", 1, width - Len(s)) \o s
\* f"{n:02d}" for any int: the sign counts toward the width
Fmt02d(n) == IF n < 0 THEN "-" \o Pad(-n, 1) ELSE Pad(n, 2)

----------------------------------------------------------------------------
(* Numbers: float(x)                                                       *)

\* a number (n + m/1000) * 10^e, with 0 <= m < 1000 and e in {0, 3}
Num(n, m, e) == [ok |-> TRUE, n |-> n, m |-> m, e |-> e]
NoNum == [ok |-> FALSE]


\* digits, or digits "." one to three digits: the unsigned decimal literals
UnsignedNum(s) ==
    LET dot == FindSub(s, ".")
    IN IF dot = 0
       THEN IF AllDigits(s) THEN Num(DigitsVal(s), 0, 0) ELSE NoNum
       ELSE LET whole == SubSeq(s, 1, dot - 1)
                frac == SubSeq(s, dot + 1, Len(s))
            IN IF AllDigits(whole) /\ AllDigits(frac) /\ Len(frac) <= 3
               THEN Num(DigitsVal(whole),
                        DigitsVal(frac \o SubSeq("000", 1, 3 - Len(frac))), 0)
               ELSE NoNum

\* float(s) of a string: blanks stripped, an optional sign, a decimal literal.
\* (The literals float() also takes -- exponents, inf, nan, underscores -- are
\* not among the strings of the payload sets below.)
\* u or -u: -(n + m/1000) as floor plus thousandths
WithSign(negative, u) ==
    IF ~(negative /\ u.ok) THEN u
    ELSE IF u.m = 0 THEN Num(-u.n, 0, 0) ELSE Num(-u.n - 1, 1000 - u.m, 0)
SignedNum(s) ==
    IF s = "" THEN NoNum
    ELSE WithSign(CharAt(s, 1) = "-",
                  UnsignedNum(IF CharAt(s, 1) \in {"-", "+"} THEN SubSeq(s, 2, Len(s)) ELSE s))
StrToNum(s0) == SignedNum(Strip(s0))

\* float(value): NoNum stands for the TypeError / ValueError it raises
PyFloat(j) ==
    CASE j.t = "bool" -> Num(IF j.b THEN 1 ELSE 0, 0, 0)
      [] j.t = "int" -> Num(j.n, 0, 0)
      [] j.t = "float" -> Num(j.n, j.m, j.e)
      [] j.t = "str" -> StrToNum(j.s)
      [] OTHER -> NoNum

----------------------------------------------------------------------------
(* The proleptic Gregorian calendar of datetime                            *)

SecondsPerDay == 86400
\* days from 1970-01-01 to the first of March of year 0
EpochShift == 719468
DaysPerEra == 146097

\* days since 1970-01-01 of the civil date y-m-d
DaysFromCivil(y0, m, d) ==
    LET y == IF m <= 2 THEN y0 - 1 ELSE y0
        era == y \div 400
        yoe == y - era * 400
        mp == IF m > 2 THEN m - 3 ELSE m + 9
        doy == (153 * mp + 2) \div 5 + d - 1
        doe == yoe * 365 + yoe \div 4 - yoe \div 100 + doy
    IN era * DaysPerEra + doe - EpochShift

\* the civil date [y, m, d] of a day number
CivilFromDays(z0) ==
    LET z == z0 + EpochShift
        era == z \div DaysPerEra
        doe == z - era * DaysPerEra
        yoe == (doe - doe \div 1460 + doe \div 36524 - doe \div 146096) \div 365
        doy == doe - (365 * yoe + yoe \div 4 - yoe \div 100)
        mp == (5 * doy + 2) \div 153
        d == doy - (153 * mp + 2) \div 5 + 1
        m == IF mp < 10 THEN mp + 3 ELSE mp - 9
    IN [y |-> yoe + era * 400 + (IF m <= 2 THEN 1 ELSE 0), m |-> m, d |-> d]

DaysInMonth(y, m) ==
    IF m = 2 THEN (IF (y % 4 = 0 /\ y % 100 # 0) \/ y % 400 = 0 THEN 29 ELSE 28)
    ELSE IF m \in {4, 6, 9, 11} THEN 30 ELSE 31

\* datetime.MINYEAR and datetime.MAXYEAR
MinYear == 1
MaxYear == 9999

\* datetime(y, m, d, ...) accepts these fields
ValidDate(y, m, d) ==
    /\ y >= MinYear /\ y <= MaxYear
    /\ m >= 1 /\ m <= 12
    /\ d >= 1 /\ d <= DaysInMonth(y, m)
ValidTime(h, mi, s) == h >= 0 /\ h <= 23 /\ mi >= 0 /\ mi <= 59 /\ s >= 0 /\ s <= 59

\* an aware UTC datetime: day number, second of the day, microsecond
Instant(d, s, us) == [ok |-> TRUE, d |-> d, s |-> s, us |-> us]
NoInstant == [ok |-> FALSE]

\* the instant `secs` seconds after day d's midnight, when datetime can hold it
NormInstant(d, secs, us) ==
    LET dd == d + secs \div SecondsPerDay
    IN IF dd < DaysFromCivil(MinYear, 1, 1) \/ dd > DaysFromCivil(MaxYear, 12, 31) THEN NoInstant
       ELSE Instant(dd, secs % SecondsPerDay, us)

----------------------------------------------------------------------------
(* parse_time and the datetime calls it makes                              *)

\* 1e10 is MsThreshold thousands
MsThreshold == 10000000
MicrosPerMilli == 1000

\* datetime.fromtimestamp(num, tz=utc), after `if num > 1e10: num = num / 1000.0`;
\* NoInstant stands for the OverflowError / ValueError of a year outside 1..9999
FromTimestamp(num) ==
    IF num.e = 0 THEN NormInstant(0, num.n, num.m * MicrosPerMilli)
    ELSE IF num.n > MsThreshold \/ (num.n = MsThreshold /\ num.m > 0)
    THEN NormInstant(0, num.n, num.m * MicrosPerMilli)
    ELSE \* 1000 * n + m seconds: 1000 n = 86400 * (5 n \div 432) + 200 * (5 n % 432)
         NormInstant((5 * num.n) \div 432, ((5 * num.n) % 432) * 200 + num.m, 0)

\* dt.strftime("%Y-%m-%d %H:%M:%S %Z") of a UTC datetime; the C library decides
\* whether %Y of a year below 1000 is padded to four digits
FormatCivil(c, s, pad) ==
    (IF pad THEN Pad(c.y, 4) ELSE ToString(c.y)) \o "-" \o Pad(c.m, 2) \o "-"
    \o Pad(c.d, 2) \o " " \o Pad(s \div 3600, 2) \o ":"
    \o Pad((s % 3600) \div 60, 2) \o ":" \o Pad(s % 60, 2) \o " UTC"
\* the same with %I, the hour of the twelve-hour clock
Strftime12(dt, pad) == FormatCivil(CivilFromDays(dt.d), dt.s % (12 * 3600), pad)
Strftime(dt, pad) == FormatCivil(CivilFromDays(dt.d), dt.s, pad)

\* the length of the run of digits s starts with
RECURSIVE DigitRun(_)
DigitRun(s) ==
    IF s = "" \/ ~IsDigit(CharAt(s, 1)) THEN 0 ELSE 1 + DigitRun(SubSeq(s, 2, Len(s)))

\* a UTC offset "+HH:MM" / "-HH:MM" in seconds, or "" for a naive time
IsoOffset(s) ==
    IF s = "" THEN [ok |-> TRUE, secs |-> 0]
    ELSE IF /\ Len(s) = 6
            /\ CharAt(s, 1) \in {"+", "-"}
            /\ AllDigits(SubSeq(s, 2, 3)) /\ CharAt(s, 4) = ":" /\ AllDigits(SubSeq(s, 5, 6))
            /\ DigitsVal(SubSeq(s, 2, 3)) <= 23 /\ DigitsVal(SubSeq(s, 5, 6)) <= 59
    THEN LET mag == DigitsVal(SubSeq(s, 2, 3)) * 3600 + DigitsVal(SubSeq(s, 5, 6)) * 60
         IN [ok |-> TRUE, secs |-> IF CharAt(s, 1) = "-" THEN -mag ELSE mag]
    ELSE [ok |-> FALSE]

\* datetime.fromisoformat(s), then replace(tzinfo=utc) / astimezone(utc), for
\* "YYYY-MM-DD" and "YYYY-MM-DD?HH:MM:SS[.f{1,6}][+HH:MM|-HH:MM]" (? any one
\* character); every other string is the ValueError (NoInstant)
FromIso(s) ==
    LET L == Len(s) IN
    IF ~(/\ L >= 10
         /\ AllDigits(SubSeq(s, 1, 4)) /\ CharAt(s, 5) = "-"
         /\ AllDigits(SubSeq(s, 6, 7)) /\ CharAt(s, 8) = "-"
         /\ AllDigits(SubSeq(s, 9, 10)))
    THEN NoInstant
    ELSE
    LET y == DigitsVal(SubSeq(s, 1, 4))
        mo == DigitsVal(SubSeq(s, 6, 7))
        d == DigitsVal(SubSeq(s, 9, 10))
    IN
    IF ~ValidDate(y, mo, d) THEN NoInstant
    ELSE IF L = 10 THEN Instant(DaysFromCivil(y, mo, d), 0, 0)
    ELSE IF ~(/\ L >= 19
              /\ AllDigits(SubSeq(s, 12, 13)) /\ CharAt(s, 14) = ":"
              /\ AllDigits(SubSeq(s, 15, 16)) /\ CharAt(s, 17) = ":"
              /\ AllDigits(SubSeq(s, 18, 19)))
    THEN NoInstant
    ELSE
    LET h == DigitsVal(SubSeq(s, 12, 13))
        mi == DigitsVal(SubSeq(s, 15, 16))
        sec == DigitsVal(SubSeq(s, 18, 19))
        rest == SubSeq(s, 20, L)
        hasFrac == rest # "" /\ CharAt(rest, 1) = "."
        nfrac == IF hasFrac THEN DigitRun(SubSeq(rest, 2, Len(rest))) ELSE 0
        us == IF hasFrac /\ nfrac >= 1 /\ nfrac <= 6
              THEN DigitsVal(SubSeq(rest, 2, 1 + nfrac) \o SubSeq("000000", 1, 6 - nfrac))
              ELSE 0
        off == IsoOffset(IF hasFrac THEN SubSeq(rest, 2 + nfrac, Len(rest)) ELSE rest)
    IN
    IF ~ValidTime(h, mi, sec) \/ (hasFrac /\ (nfrac < 1 \/ nfrac > 6)) \/ ~off.ok
    THEN NoInstant
    ELSE NormInstant(DaysFromCivil(y, mo, d), h * 3600 + mi * 60 + sec - off.secs, us)

NA == "N/A"

\* the first try block: float(value) and fromtimestamp; NoInstant when it raises
NumInstant(num) == IF num.ok THEN FromTimestamp(num) ELSE NoInstant

\* s.replace("Z", "+00:00") when s.endswith("Z")
ZuluToOffset(s) ==
    IF s # "" /\ CharAt(s, Len(s)) = "Z" THEN SubSeq(s, 1, Len(s) - 1) \o "+00:00" ELSE s

\* the second try block, entered when the first raised; str(value) of a value
\* that is no string is no ISO date
OrIso(byNum, value) ==
    IF byNum.ok THEN byNum
    ELSE IF ~IsStr(value) THEN NoInstant
    ELSE FromIso(ZuluToOffset(Strip(value.s)))

\* return dt.strftime(...), dt from either block, or "N/A", None
Formatted(dt, pad) ==
    IF dt.ok THEN [str |-> Strftime(dt, pad), dt |-> dt] ELSE [str |-> NA, dt |-> NoInstant]

\* parse_time(value) -> (formatted, datetime or None)
ParseTimeWith(value, pad) ==
    IF value = JNull \/ (IsStr(value) /\ value.s \in {"", NA})
    THEN [str |-> NA, dt |-> NoInstant]
    ELSE Formatted(OrIso(NumInstant(PyFloat(value)), value), pad)

parse_time(value) == ParseTimeWith(value, padYear)

\* f"{h}h {m}m {s}s", leading zero units left out
FormatHMS(h, m, s) ==
    IF h # 0 THEN ToString(h) \o "h " \o ToString(m) \o "m " \o ToString(s) \o "s"
    ELSE IF m # 0 THEN ToString(m) \o "m " \o ToString(s) \o "s"
    ELSE ToString(s) \o "s"

MicrosPerSecond == 1000000

\* seconds_between(start, end); int() truncates (end - start).total_seconds()
\* toward zero, so a negative difference above -1 second counts as 0
seconds_between(start, end) ==
    IF ~start.ok \/ ~end.ok THEN NA
    ELSE
    LET u0 == end.us - start.us
        r0 == end.s - start.s - (IF u0 < 0 THEN 1 ELSE 0)
        U == IF u0 < 0 THEN u0 + MicrosPerSecond ELSE u0
        R == IF r0 < 0 THEN r0 + SecondsPerDay ELSE r0
        D == end.d - start.d - (IF r0 < 0 THEN 1 ELSE 0)
    IN IF D < 0
       THEN (IF D = -1 /\ R = SecondsPerDay - 1 /\ U > 0 THEN "0s" ELSE NA)
       ELSE FormatHMS(D * 24 + R \div 3600, (R % 3600) \div 60, R % 60)

\* a number written without exponent
Plain(num) == IF num.e = 0 THEN num ELSE Num(1000 * num.n + num.m, 0, 0)

\* int(x): truncation toward zero
Trunc(num) == IF num.n < 0 /\ num.m > 0 THEN num.n + 1 ELSE num.n

\* format_seconds(value)
FormatNum(num) ==
    IF ~num.ok THEN NA
    ELSE LET total == Trunc(Plain(num))
         IN IF total < 0 THEN NA
            ELSE FormatHMS(total \div 3600, (total % 3600) \div 60, total % 60)
format_seconds(value) == FormatNum(PyFloat(value))

\* 1024 * 1024
BytesPerMB == 1048576
\* 1024 * 1024 * 5
MBThreshold == 5242880

\* round(x) of Python 3 for x = lo + rem / (2 half): to the nearest integer, a
\* tie to the even one
RoundHalfEven(lo, rem, half) ==
    IF rem < half THEN lo
    ELSE IF rem > half THEN lo + 1
    ELSE IF lo % 2 = 0 THEN lo ELSE lo + 1

\* to_mb(size_any)
SizeMB(f) ==
    IF ~f.ok THEN 0
    ELSE LET num == Plain(f)
         IN IF num.n > MBThreshold \/ (num.n = MBThreshold /\ num.m > 0)
            THEN RoundHalfEven(num.n \div BytesPerMB,
                               (num.n % BytesPerMB) * 1000 + num.m,
                               (BytesPerMB \div 2) * 1000)
            ELSE RoundHalfEven(num.n, num.m, 500)
to_mb(size_any) == SizeMB(PyFloat(size_any))

----------------------------------------------------------------------------
(* str(x)                                                                  *)

\* the digits of a fraction in thousandths, trailing zeros dropped
RECURSIVE TrimZeros(_)
TrimZeros(s) ==
    IF Len(s) > 1 /\ CharAt(s, Len(s)) = "0" THEN TrimZeros(SubSeq(s, 1, Len(s) - 1)) ELSE s

\* repr of a non-negative float whole + frac/1000, or of its thousandfold
ReprMagnitude(whole, frac, e) ==
    IF e = 0 THEN ToString(whole) \o "." \o TrimZeros(Pad(frac, 3))
    ELSE (IF whole = 0 THEN ToString(frac) ELSE ToString(whole) \o Pad(frac, 3)) \o ".0"

ReprFloat(j) ==
    IF j.n >= 0 THEN ReprMagnitude(j.n, j.m, j.e)
    ELSE IF j.m = 0 THEN "-" \o ReprMagnitude(-j.n, 0, j.e)
    ELSE "-" \o ReprMagnitude(-j.n - 1, 1000 - j.m, j.e)

RECURSIVE PyRepr(_), ReprItems(_, _), ReprEntries(_, _)
\* repr(x): strings quoted inside containers
PyRepr(j) ==
    CASE j.t = "null" -> "None"
      [] j.t = "bool" -> IF j.b THEN "True" ELSE "False"
      [] j.t = "int" -> ToString(j.n)
      [] j.t = "float" -> ReprFloat(j)
      [] j.t = "str" -> "'" \o j.s \o "'"
      [] j.t = "list" -> "[" \o ReprItems(j.l, 1) \o "]"
      [] j.t = "dict" -> "{" \o ReprEntries(j.d, 1) \o "}"
ReprItems(l, i) ==
    IF i > Len(l) THEN ""
    ELSE PyRepr(l[i]) \o (IF i < Len(l) THEN ", " ELSE "") \o ReprItems(l, i + 1)
ReprEntries(d, i) ==
    IF i > Len(d) THEN ""
    ELSE "'" \o d[i].k \o "': " \o PyRepr(d[i].v)
         \o (IF i < Len(d) THEN ", " ELSE "") \o ReprEntries(d, i + 1)

\* str(x)
PyStr(j) == IF j.t = "str" THEN j.s ELSE PyRepr(j)

----------------------------------------------------------------------------
(* unwrap_api_payload, find_all, normalize_schedules                       *)

MaxEnvelopeKeys == 3

\* an envelope of fewer keys
IsEnvelopeNarrow(value) ==
    IsDict(value) /\ HasKey(value, "value") /\ Len(value.d) < MaxEnvelopeKeys
IsEnvelope(value) ==
    IsDict(value) /\ HasKey(value, "value") /\ Len(value.d) <= MaxEnvelopeKeys

unwrap_api_payload(value) == IF IsEnvelope(value) THEN Get(value, "value") ELSE value

\* the mapping d with the value under key k replaced by v
WithValue(j, k, v) ==
    JDict([i \in 1..Len(j.d) |-> IF j.d[i].k = k THEN KV(k, v) ELSE j.d[i]])

RECURSIVE Walk(_, _, _), WalkDict(_, _, _, _), WalkList(_, _, _, _)
\* find_all.walk(node), with `found` passed along
Walk(node, keys, found) ==
    IF IsDict(node) THEN WalkDict(node.d, 1, keys, found)
    ELSE IF IsList(node) THEN WalkList(node.l, 1, keys, found)
    ELSE found
WalkDict(es, i, keys, found) ==
    IF i > Len(es) THEN found
    ELSE LET e == es[i]
             f1 == IF e.k \in keys /\ ~HasKey(found, e.k) /\ ~IsEmptyEquivalent(e.v)
                   THEN JDict(Append(found.d, e)) ELSE found
         IN WalkDict(es, i + 1, keys, Walk(e.v, keys, f1))
WalkList(l, i, keys, found) ==
    IF i > Len(l) THEN found ELSE WalkList(l, i + 1, keys, Walk(l[i], keys, found))

find_all(obj, keys) == Walk(obj, keys, JDict(<<>>))

\* every item, a mapping or not
AllItems(l) == l
\* [x for x in l if isinstance(x, dict)]
RECURSIVE OnlyDicts(_)
OnlyDicts(l) ==
    IF l = <<>> THEN <<>>
    ELSE (IF IsDict(Head(l)) THEN <<Head(l)>> ELSE <<>>) \o OnlyDicts(Tail(l))

\* v = dict(sv); v.setdefault("id", sid): the record appended, and the caller's
\* object sv afterwards
ScheduleEntryAliased(sid, sv) ==
    [v |-> SetDefault(sv, "id", JStr(sid)), sv |-> SetDefault(sv, "id", JStr(sid))]
ScheduleEntry(sid, sv) == [v |-> SetDefault(sv, "id", JStr(sid)), sv |-> sv]

\* the loop over schedules_obj.items(): the list `values`, and the entries of
\* schedules_obj afterwards
RECURSIVE ScheduleValues(_, _)
ScheduleValues(es, i) ==
    IF i > Len(es) THEN [values |-> <<>>, entries |-> <<>>]
    ELSE LET next == ScheduleValues(es, i + 1) IN
         IF IsDict(es[i].v)
         THEN LET e == ScheduleEntry(es[i].k, es[i].v)
              IN [values |-> <<e.v>> \o next.values,
                  entries |-> <<KV(es[i].k, e.sv)>> \o next.entries]
         ELSE [values |-> next.values, entries |-> <<es[i]>> \o next.entries]

RECURSIVE NormalizeRun(_)
\* normalize_schedules(schedules_obj): what it returns (ret) and the argument
\* object afterwards (obj)
NormalizeRun(obj) ==
    LET u == unwrap_api_payload(obj)
        inner ==
            IF ~Truthy(u) THEN [ret |-> <<>>, obj |-> u]
            ELSE IF IsList(u) THEN [ret |-> OnlyDicts(u.l), obj |-> u]
            ELSE IF IsDict(u)
            THEN IF HasKey(u, "schedules")
                 THEN LET r == NormalizeRun(Get(u, "schedules"))
                      IN [ret |-> r.ret, obj |-> WithValue(u, "schedules", r.obj)]
                 ELSE LET r == ScheduleValues(u.d, 1)
                      IN [ret |-> r.values, obj |-> JDict(r.entries)]
            ELSE [ret |-> <<>>, obj |-> u]
    IN [ret |-> inner.ret,
        obj |-> IF IsEnvelope(obj) THEN WithValue(obj, "value", inner.obj) ELSE inner.obj]

normalize_schedules(schedules_obj) == NormalizeRun(schedules_obj).ret

----------------------------------------------------------------------------
(* Field extractors                                                        *)

\* a.get(k1) or a.get(k2) or ... : the first truthy value, else the last one
RECURSIVE FirstTruthy(_, _)
FirstTruthy(j, ks) ==
    IF Len(ks) = 1 THEN Get(j, ks[1])
    ELSE PyOr(Get(j, Head(ks)), FirstTruthy(j, Tail(ks)))

\* the for loop `value = d.get(key); if value: return ...` over ks: the first
\* truthy value, None when there is none
RECURSIVE FirstTruthyOrNone(_, _)
FirstTruthyOrNone(j, ks) ==
    IF ks = <<>> THEN JNull
    ELSE IF Truthy(Get(j, Head(ks))) THEN Get(j, Head(ks))
    ELSE FirstTruthyOrNone(j, Tail(ks))

SeqRange(s) == {s[i] : i \in 1..Len(s)}

EnabledWords == {"true", "enabled", "enable", "on", "active", "1"}

\* get_enabled(schedule)
get_enabled(schedule) ==
    IF HasKey(schedule, "enabled") THEN Truthy(Get(schedule, "enabled"))
    ELSE IF HasKey(schedule, "enable") THEN Truthy(Get(schedule, "enable"))
    ELSE
    LET state == Get(schedule, "state")
        status == Get(schedule, "status")
        StrOn(v) == IsStr(v) /\ Lower(v.s) \in EnabledWords
    IN
    IF IsBool(state) THEN state.b
    ELSE IF StrOn(state) THEN TRUE
    ELSE IF IsBool(status) THEN status.b
    ELSE IF StrOn(status) THEN TRUE
    ELSE LET nested == find_all(schedule, {"enabled", "enable", "state", "status"})
             value == FirstTruthy(nested, <<"enabled", "enable", "state", "status">>)
         IN IF IsBool(value) THEN value.b
            ELSE IF IsStr(value) THEN Lower(value.s) \in EnabledWords
            ELSE FALSE

LocationKeys == <<"location", "location_url", "url", "target", "dest", "destination">>

\* get_location(schedule)
get_location(schedule) ==
    LET direct == FirstTruthyOrNone(schedule, LocationKeys)
        nested == FirstTruthyOrNone(find_all(schedule, SeqRange(LocationKeys)), LocationKeys)
    IN IF Truthy(direct) THEN PyStr(direct)
       ELSE IF Truthy(nested) THEN PyStr(nested)
       ELSE NA

TypeKeys == <<"location_type", "type", "protocol", "scheme">>

\* guess_location_type(location, schedule)
guess_location_type(location, schedule) ==
    LET direct == FirstTruthyOrNone(schedule, TypeKeys)
        nested == FirstTruthyOrNone(find_all(schedule, SeqRange(TypeKeys)), TypeKeys)
        sep == FindSub(location, "://")
    IN IF Truthy(direct) THEN Upper(PyStr(direct))
       ELSE IF Truthy(nested) THEN Upper(PyStr(nested))
       ELSE IF location # "" /\ sep > 0 THEN Upper(SubSeq(location, 1, sep - 1))
       ELSE NA

\* re.match(r"^\d{1,2}:\d{2}$", s)
IsClockString(s) ==
    \/ (Len(s) = 4 /\ IsDigit(CharAt(s, 1)) /\ CharAt(s, 2) = ":" /\ AllDigits(SubSeq(s, 3, 4)))
    \/ (Len(s) = 5 /\ AllDigits(SubSeq(s, 1, 2)) /\ CharAt(s, 3) = ":" /\ AllDigits(SubSeq(s, 4, 5)))

\* the int a JSON int or bool stands for
IntOf(j) == IF j.t = "bool" THEN (IF j.b THEN 1 ELSE 0) ELSE j.n

\* _fmt_time(hour, minute, time_str): "HH:MM" or None
fmt_time(hour, minute, time_str) ==
    IF IsStr(time_str) /\ IsClockString(Strip(time_str.s))
    THEN LET s == Strip(time_str.s)
             colon == FindSub(s, ":")
         IN JStr(Pad(DigitsVal(SubSeq(s, 1, colon - 1)), 2) \o ":"
                 \o Pad(DigitsVal(SubSeq(s, colon + 1, Len(s))), 2))
    ELSE IF IsIntLike(hour) /\ IsIntLike(minute)
    THEN JStr(Fmt02d(IntOf(hour)) \o ":" \o Fmt02d(IntOf(minute)))
    ELSE JNull

RecurrenceKeys ==
    {"hour", "minute", "days", "period", "type", "time", "cron", "cron_expr",
     "cron_expression", "frequency", "interval"}

DayNames == <<"MONDAY", "TUESDAY", "WEDNESDAY", "THURSDAY", "FRIDAY", "SATURDAY", "SUNDAY">>

\* extract_recurrence.fmt_day(day)
DayName(ds) ==
    IF Len(ds) = 1 /\ IsDigit(ds) /\ DigitVal(ds) >= 1 /\ DigitVal(ds) <= 7
    THEN DayNames[DigitVal(ds)]
    ELSE IF Len(ds) > 3 THEN SubSeq(ds, 1, 3) ELSE ds
fmt_day(day) == DayName(Upper(PyStr(day)))

\* ",".join(fmt_day(day) for day in days)
RECURSIVE JoinDays(_)
JoinDays(days) ==
    fmt_day(Head(days)) \o (IF Len(days) = 1 THEN "" ELSE "," \o JoinDays(Tail(days)))

\* extract_recurrence(schedule): the description, or the AttributeError of
\* recurrence.get on a value that is no mapping
\* the four returns that close extract_recurrence
Described(period, hhmm, days_str) ==
    IF days_str # "" /\ Truthy(hhmm)
    THEN JStr((IF Truthy(period) THEN Upper(PyStr(period)) ELSE "WEEKLY") \o " " \o hhmm.s
              \o " " \o days_str)
    ELSE IF Truthy(period) /\ Truthy(hhmm) THEN JStr(Upper(PyStr(period)) \o " " \o hhmm.s)
    ELSE IF Truthy(hhmm) THEN JStr("DAILY " \o hhmm.s)
    ELSE JStr(NA)

\* extract_recurrence once recurrence is a mapping and find_all has returned
RecurrenceOf(recurrence, nested) ==
    IF Truthy(FirstTruthy(nested, <<"cron", "cron_expr", "cron_expression">>))
    THEN JStr("CRON " \o PyStr(FirstTruthy(nested, <<"cron", "cron_expr", "cron_expression">>)))
    ELSE Described(FirstTruthy(nested, <<"period", "type", "frequency", "interval">>),
                   fmt_time(GetD(nested, "hour", Get(recurrence, "hour")),
                            GetD(nested, "minute", Get(recurrence, "minute")),
                            Get(nested, "time")),
                   LET days == IF HasKey(nested, "days") THEN Get(nested, "days")
                               ELSE Get(recurrence, "days")
                   IN IF IsList(days) /\ days.l # <<>> THEN JoinDays(days.l) ELSE "")

\* recurrence.get(...) of the first lines: an AttributeError unless recurrence
\* is a mapping
RecurrenceIn(recurrence, schedule) ==
    IF ~IsDict(recurrence) THEN Raise("AttributeError")
    ELSE RecurrenceOf(recurrence, find_all(schedule, RecurrenceKeys))

extract_recurrence(schedule) ==
    RecurrenceIn(PyOr(Get(schedule, "recurrence"),
                      PyOr(Get(schedule, "schedule"),
                           PyOr(Get(schedule, "recurrence_info"), JDict(<<>>)))),
                 schedule)

\* the same for the values that are no lists
RECURSIVE KeyValuePiecesNoLists(_, _)
KeyValuePiecesNoLists(j, ks) ==
    IF ks = <<>> THEN <<>>
    ELSE (IF IsEmptyEquivalent(Get(j, Head(ks))) \/ IsList(Get(j, Head(ks))) THEN <<>>
          ELSE <<Head(ks) \o "=" \o PyStr(Get(j, Head(ks)))>>)
         \o KeyValuePiecesNoLists(j, Tail(ks))
\* [f"{key}={value}" for key in ks if d.get(key) not in (None, "", [])]
RECURSIVE KeyValuePieces(_, _)
KeyValuePieces(j, ks) ==
    IF ks = <<>> THEN <<>>
    ELSE (IF IsEmptyEquivalent(Get(j, Head(ks))) THEN <<>>
          ELSE <<Head(ks) \o "=" \o PyStr(Get(j, Head(ks)))>>)
         \o KeyValuePieces(j, Tail(ks))

\* ", ".join(pieces)
RECURSIVE JoinPieces(_)
JoinPieces(pieces) ==
    IF Len(pieces) = 1 THEN pieces[1]
    ELSE Head(pieces) \o ", " \o JoinPieces(Tail(pieces))

FlatRetentionKeys == <<"max_count", "num_backups", "count", "days", "weeks", "months">>
InnerRetentionKeys == <<"max_count", "count", "days", "weeks", "months">>
RetentionMappingKeys == <<"retention", "retention_info", "retention_policy">>

\* the second tier of extract_retention: the loop over the retention mappings
RECURSIVE InnerRetention(_, _, _)
InnerRetention(schedule, nested, ks) ==
    IF ks = <<>> THEN NA
    ELSE LET retention == PyOr(Get(nested, Head(ks)), Get(schedule, Head(ks)))
             inner == IF IsDict(retention)
                      THEN KeyValuePieces(retention, InnerRetentionKeys) ELSE <<>>
         IN IF inner # <<>> THEN JoinPieces(inner)
            ELSE InnerRetention(schedule, nested, Tail(ks))

\* extract_retention(schedule)
extract_retention(schedule) ==
    LET nested == find_all(schedule, SeqRange(FlatRetentionKeys) \cup SeqRange(RetentionMappingKeys))
        pieces == KeyValuePieces(nested, FlatRetentionKeys)
    IN IF pieces # <<>> THEN JoinPieces(pieces)
       ELSE InnerRetention(schedule, nested, RetentionMappingKeys)

----------------------------------------------------------------------------
(* Job candidates, ranking, the job summary                                *)

JobKeys ==
    {"status", "start_time", "end_time", "duration", "operation", "service", "size",
     "backup_size"}

\* _looks_like_job(node)
looks_like_job(node) == \E k \in JobKeys : HasKey(node, k)

NestedJobKeys == <<"details", "last", "latest", "most_recent", "summary">>

\* candidate = dict(value); candidate.setdefault("_job_id", str(job_id)): the
\* candidate appended, and the caller's object `value` afterwards
JobEntry(job_id, value) ==
    [candidate |-> SetDefault(value, "_job_id", JStr(job_id)), value |-> value]

RECURSIVE CollectRun(_), CollectList(_, _), CollectNested(_, _), CollectTagged(_, _)
\* the loop over a list's items: the candidates, and the items afterwards
CollectList(l, i) ==
    IF i > Len(l) THEN [ret |-> <<>>, items |-> <<>>]
    ELSE LET next == CollectList(l, i + 1) IN
         IF IsDict(l[i])
         THEN LET r == CollectRun(l[i])
              IN [ret |-> r.ret \o next.ret, items |-> <<r.obj>> \o next.items]
         ELSE [ret |-> next.ret, items |-> <<l[i]>> \o next.items]
\* the loop over details, last, latest, most_recent, summary
CollectNested(job_obj, ks) ==
    IF ks = <<>> THEN [ret |-> <<>>, obj |-> job_obj]
    ELSE LET nested == Get(job_obj, Head(ks)) IN
         IF IsDict(nested) \/ IsList(nested)
         THEN LET r == CollectRun(nested)
                  next == CollectNested(WithValue(job_obj, Head(ks), r.obj), Tail(ks))
              IN [ret |-> r.ret \o next.ret, obj |-> next.obj]
         ELSE CollectNested(job_obj, Tail(ks))
\* the loop over job_obj.items(): the tagged copies, and the entries afterwards
CollectTagged(es, i) ==
    IF i > Len(es) THEN [ret |-> <<>>, entries |-> <<>>]
    ELSE LET next == CollectTagged(es, i + 1) IN
         IF IsDict(es[i].v) /\ looks_like_job(es[i].v)
         THEN LET e == JobEntry(es[i].k, es[i].v)
              IN [ret |-> <<e.candidate>> \o next.ret,
                  entries |-> <<KV(es[i].k, e.value)>> \o next.entries]
         ELSE [ret |-> next.ret, entries |-> <<es[i]>> \o next.entries]
\* _collect_job_candidates(job_obj): the candidates (ret) and the argument
\* object afterwards (obj)
CollectRun(obj) ==
    LET u == unwrap_api_payload(obj)
        inner ==
            IF IsList(u)
            THEN LET r == CollectList(u.l, 1) IN [ret |-> r.ret, obj |-> JList(r.items)]
            ELSE IF ~IsDict(u) THEN [ret |-> <<>>, obj |-> u]
            ELSE LET own == IF looks_like_job(u) THEN <<u>> ELSE <<>>
                     nested == CollectNested(u, NestedJobKeys)
                     tagged == CollectTagged(nested.obj.d, 1)
                 IN [ret |-> own \o nested.ret \o tagged.ret, obj |-> JDict(tagged.entries)]
    IN [ret |-> inner.ret,
        obj |-> IF IsEnvelope(obj) THEN WithValue(obj, "value", inner.obj) ELSE inner.obj]

collect_job_candidates(job_obj) == CollectRun(job_obj).ret

\* dt.timestamp() as day, second of the day, microsecond; -1.0 when dt is None
Timestamp(dt) ==
    IF dt.ok THEN [d |-> dt.d, s |-> dt.s, us |-> dt.us]
    ELSE [d |-> -1, s |-> SecondsPerDay - 1, us |-> 0]

ScoreLess(a, b) ==
    \/ a.d < b.d
    \/ (a.d = b.d /\ a.s < b.s)
    \/ (a.d = b.d /\ a.s = b.s /\ a.us < b.us)

\* tuple comparison of two (end_score, start_score)
RankLess(a, b) ==
    \/ ScoreLess(a.end_score, b.end_score)
    \/ (a.end_score = b.end_score /\ ScoreLess(a.start_score, b.start_score))

EndKeys == <<"end_time", "end", "completed", "completion_time", "finish_time">>
StartKeys == <<"start_time", "start", "started", "begin_time", "queued_time">>

\* re.match(r"^(\d{8})-(\d{6})", job_id)
HasIdStamp(job_id) ==
    /\ Len(job_id) >= 15
    /\ AllDigits(SubSeq(job_id, 1, 8))
    /\ CharAt(job_id, 9) = "-"
    /\ AllDigits(SubSeq(job_id, 10, 15))

\* datetime.strptime(digits, "%Y%m%d%H%M%S").replace(tzinfo=utc) of the fourteen
\* digits of the id; NoInstant stands for its ValueError
IdInstant(job_id) ==
    LET y == DigitsVal(SubSeq(job_id, 1, 4))
        mo == DigitsVal(SubSeq(job_id, 5, 6))
        d == DigitsVal(SubSeq(job_id, 7, 8))
        h == DigitsVal(SubSeq(job_id, 10, 11))
        mi == DigitsVal(SubSeq(job_id, 12, 13))
        sec == DigitsVal(SubSeq(job_id, 14, 15))
    IN IF ValidDate(y, mo, d) /\ ValidTime(h, mi, sec)
       THEN Instant(DaysFromCivil(y, mo, d), h * 3600 + mi * 60 + sec, 0)
       ELSE NoInstant

\* _rank_job(job): (end_score, start_score), or the ValueError of strptime
\* end_score = parsed.timestamp() of the id's stamp
IdRank(parsed, start_score) ==
    IF parsed.ok
    THEN [t |-> "rank", end_score |-> Timestamp(parsed), start_score |-> start_score]
    ELSE Raise("ValueError")
\* `if end_score < 0` and the match of the id, then the return
Ranked(end_score, start_score, job_id) ==
    IF end_score.d < 0 /\ HasIdStamp(job_id)
    THEN IdRank(IdInstant(job_id), start_score)
    ELSE [t |-> "rank", end_score |-> end_score, start_score |-> start_score]
rank_job(job) ==
    Ranked(Timestamp(parse_time(FirstTruthy(job, EndKeys)).dt),
           Timestamp(parse_time(FirstTruthy(job, StartKeys)).dt),
           PyStr(GetD(job, "_job_id", JStr(""))))

\* sorted() calls the key function once for each candidate, before it compares
Keyed(candidates) ==
    [i \in 1..Len(candidates) |-> [job |-> candidates[i], key |-> rank_job(candidates[i])]]

\* one step of a stable descending sort: x goes behind every element whose key
\* is not smaller than its own
RECURSIVE InsertDescLast(_, _)
InsertDescLast(sorted, x) ==
    IF sorted = <<>> THEN <<x>>
    ELSE IF RankLess(Head(sorted).key, x.key) \/ Head(sorted).key = x.key
    THEN <<x>> \o sorted
    ELSE <<Head(sorted)>> \o InsertDescLast(Tail(sorted), x)
RECURSIVE InsertDesc(_, _)
InsertDesc(sorted, x) ==
    IF sorted = <<>> THEN <<x>>
    ELSE IF RankLess(Head(sorted).key, x.key) THEN <<x>> \o sorted
    ELSE <<Head(sorted)>> \o InsertDesc(Tail(sorted), x)

\* the candidates as they come
Unsorted(keyed) == keyed
\* sorted(candidates, key=_rank_job, reverse=True): stable, equal keys keep
\* their order
RECURSIVE SortedDesc(_)
SortedDesc(keyed) ==
    IF keyed = <<>> THEN <<>>
    ELSE InsertDesc(SortedDesc(SubSeq(keyed, 1, Len(keyed) - 1)), keyed[Len(keyed)])

NoJobSummary ==
    [t |-> "summary", status |-> "NO JOB", start_str |-> NA, end_str |-> NA, duration_str |-> NA,
     size_mb |-> 0]

SizeKeys == <<"size", "backup_size", "bytes_transferred", "transferred", "total_bytes">>

\* lines 303-313 of extract_last_job: the summary of the selected candidate
\* `if duration_str == "N/A" and last_job.get("duration") is not None`
DurationStr(between, duration) ==
    IF between = NA /\ duration # JNull THEN format_seconds(duration) ELSE between

SummaryOf(last_job, start, end) ==
    [t |-> "summary",
     status |-> Upper(PyStr(PyOr(FirstTruthy(last_job, <<"status", "state", "result">>),
                                 JStr("UNKNOWN")))),
     start_str |-> start.str, end_str |-> end.str,
     duration_str |-> DurationStr(seconds_between(start.dt, end.dt), Get(last_job, "duration")),
     size_mb |-> to_mb(FirstTruthy(last_job, SizeKeys))]

\* the summary with the timestamp of the `_job_id` shown as the end when no
\* end field parses
JobSummaryFromId(last_job) ==
    SummaryOf(last_job, parse_time(FirstTruthy(last_job, StartKeys)),
              IF parse_time(FirstTruthy(last_job, EndKeys)).dt.ok
                 \/ ~HasIdStamp(PyStr(GetD(last_job, "_job_id", JStr(""))))
              THEN parse_time(FirstTruthy(last_job, EndKeys))
              ELSE Formatted(IdInstant(PyStr(GetD(last_job, "_job_id", JStr("")))), padYear))
JobSummary(last_job) ==
    SummaryOf(last_job, parse_time(FirstTruthy(last_job, StartKeys)),
              parse_time(FirstTruthy(last_job, EndKeys)))

\* sorted(...)[0] and its summary, or the exception of a key function
LastOf(keyed) ==
    IF \E i \in 1..Len(keyed) : IsRaise(keyed[i].key) THEN Raise("ValueError")
    ELSE JobSummary(SortedDesc(keyed)[1].job)

\* `if not candidates: return {...}`
Selected(candidates) ==
    IF candidates = <<>> THEN NoJobSummary ELSE LastOf(Keyed(candidates))

\* extract_last_job(job_obj): what it returns or raises (ret), how many
\* candidates it collected (n), and the argument object afterwards (obj)
Extracted(collected) ==
    [ret |-> Selected(collected.ret), n |-> Len(collected.ret), obj |-> collected.obj]
ExtractRun(job_obj) == Extracted(CollectRun(job_obj))

\* extract_last_job(job_obj): the summary, or the exception of a key function
extract_last_job(job_obj) == ExtractRun(job_obj).ret

----------------------------------------------------------------------------
(* build_rows                                                              *)

\* write_csv's headers: the columns of a row, in order
Headers ==
    <<"vCenter", "Version", "Build", "Timezone", "Schedules", "Enabled",
      "Backup Location", "Type", "Recurrence", "Retention", "Last Job", "Status",
      "Start", "End", "Duration", "Size (MB)">>
Col(row, name) == row[CHOOSE i \in 1..Len(Headers) : Headers[i] = name]

\* the five job cells that close every row
JobCells(job) ==
    <<JStr(job.status), JStr(job.start_str), JStr(job.end_str), JStr(job.duration_str),
      JInt(job.size_mb)>>

\* the four identity cells that open every row
IdentityCells(item) ==
    <<GetD(item, "hostname", JStr(NA)), PyOr(Get(item, "version"), JStr(NA)),
      PyOr(Get(item, "build"), JStr(NA)), PyOr(Get(item, "timezone"), JStr(NA))>>

\* the row appended when `not schedules`
PlaceholderRow(item, job) ==
    IdentityCells(item)
    \o <<JInt(0), JStr(NA), JStr(NA), JStr(NA), JStr(NA), JStr(NA), JStr(NA)>>
    \o JobCells(job)

\* the row appended for one schedule, once extract_recurrence has returned
ScheduleRow(item, schedules, schedule, job) ==
    IdentityCells(item)
    \o <<JInt(Len(schedules)), JInt(IF get_enabled(schedule) THEN 1 ELSE 0),
         JStr(get_location(schedule)),
         JStr(guess_location_type(get_location(schedule), schedule)),
         extract_recurrence(schedule), JStr(extract_retention(schedule)), JStr("Last")>>
    \o JobCells(job)

\* the loop `for schedule in schedules`: the rows appended, and whether an
\* exception ended it
RECURSIVE ScheduleRows(_, _, _, _)
WithRow(row, next) ==
    IF IsRaise(Col(row, "Recurrence")) THEN [rows |-> <<>>, raised |-> TRUE]
    ELSE [rows |-> <<row>> \o next.rows, raised |-> next.raised]
ScheduleRows(item, schedules, i, job) ==
    IF i > Len(schedules) THEN [rows |-> <<>>, raised |-> FALSE]
    ELSE WithRow(ScheduleRow(item, schedules, schedules[i], job),
                 ScheduleRows(item, schedules, i + 1, job))

\* rows.append(...), once per row of the iteration
PrependRows(list, new) == new \o list
AppendRows(list, new) == list \o new

\* the caller's host record once normalize_schedules and extract_last_job have
\* returned: `item` is the record itself or the mapping under its "value"
After(record, item, schedules_obj, job_obj) ==
    IF IsEnvelope(record)
    THEN WithValue(record, "value",
                   WithValue(WithValue(item, "schedules", schedules_obj), "job_details", job_obj))
    ELSE WithValue(WithValue(item, "schedules", schedules_obj), "job_details", job_obj)

\* the body of the loop once schedules and job are there
Emitted(item, schedules, job, after) ==
    IF IsRaise(job)
    THEN [rows |-> <<>>, raised |-> TRUE, exc |-> job, n |-> Len(schedules), obj |-> after]
    ELSE IF schedules = <<>>
    THEN [rows |-> <<PlaceholderRow(item, job)>>, raised |-> FALSE, exc |-> JNull, n |-> 0,
          obj |-> after]
    ELSE [rows |-> ScheduleRows(item, schedules, 1, job).rows,
          raised |-> ScheduleRows(item, schedules, 1, job).raised,
          exc |-> Raise("AttributeError"), n |-> Len(schedules), obj |-> after]

Extractions(record, item, normalized, extracted) ==
    Emitted(item, normalized.ret, extracted.ret, After(record, item, normalized.obj, extracted.obj))

\* item.get(...) of a value that is no mapping is an AttributeError
ItemRun(record, item) ==
    IF ~IsDict(item)
    THEN [rows |-> <<>>, raised |-> TRUE, exc |-> Raise("AttributeError"), n |-> 0, obj |-> record]
    ELSE Extractions(record, item, NormalizeRun(Get(item, "schedules")),
                     ExtractRun(Get(item, "job_details")))

\* one iteration of `for item in all_data`: the rows appended to `rows`,
\* whether an exception ended the iteration and which, the number of schedules,
\* and the caller's host record afterwards
HostRun(record) == ItemRun(record, unwrap_api_payload(record))

----------------------------------------------------------------------------
(* Payloads the runs draw their inputs from                                *)

\* a mapping written as alternating keys and values
RECURSIVE Entries(_)
Entries(kvs) ==
    IF kvs = <<>> THEN <<>>
    ELSE <<KV(kvs[1][1], kvs[1][2])>> \o Entries(Tail(kvs))
Obj(kvs) == JDict(Entries(kvs))
S(s) == JStr(s)
N(n) == JInt(n)

\* 2024-01-01 09:06:40 UTC in epoch seconds: 1704100000
T0 == DaysFromCivil(2024, 1, 1) * SecondsPerDay + 9 * 3600 + 6 * 60 + 40

SchedA ==
    Obj(<< <<"enabled", S("true")>>, <<"location", S("nfs://backup1")>>,
           <<"hour", N(2)>>, <<"minute", N(30)>>,
           <<"days", JList(<<N(1), N(3), N(5)>>)>> >>)
SchedB ==
    Obj(<< <<"enable", JBool(FALSE)>>, <<"url", S("ftp://b2")>>, <<"time", S("4:05")>>,
           <<"period", S("daily")>>, <<"retention", Obj(<< <<"count", N(7)>> >>)>> >>)
SchedC ==
    Obj(<< <<"state", S("active")>>, <<"dest", S("sftp://b3")>>,
           <<"cron", S("0 2 * * *")>> >>)
SchedD ==
    Obj(<< <<"id", S("w1")>>, <<"target", S("smb://b4")>>,
           <<"recurrence", Obj(<< <<"hour", N(3)>>, <<"minute", N(0)>> >>)>>,
           <<"max_count", N(5)>> >>)
\* a string where the recurrence mapping is expected
SchedBad == Obj(<< <<"location", S("nfs://b5")>>, <<"recurrence", S("daily")>> >>)
SchedMap == Obj(<< <<"daily", SchedC>>, <<"note", S("x")>>, <<"weekly", SchedD>> >>)

JobOk ==
    Obj(<< <<"status", S("SUCCESS")>>, <<"start_time", S("2024-01-01T02:00:00Z")>>,
           <<"end_time", S("2024-01-01T02:15:00Z")>>, <<"size", N(500000000)>> >>)
JobIds ==
    Obj(<< <<"20240101-020000-abc", Obj(<< <<"status", S("OK")>> >>)>>,
           <<"20240102-020000-def",
             Obj(<< <<"status", S("failed")>>, <<"duration", N(90)>> >>)>> >>)
\* an id whose digits are no calendar date
JobBadId == Obj(<< <<"20241340-000000", Obj(<< <<"status", S("x")>> >>)>> >>)
JobTies ==
    JList(<<Obj(<< <<"status", S("first")>>, <<"end_time", N(T0)>> >>),
            Obj(<< <<"status", S("second")>>, <<"end_time", S("2024-01-01T09:06:40Z")>> >>)>>)
JobNeg ==
    Obj(<< <<"state", S("done")>>, <<"size", N(-5)>>, <<"completed", N(T0)>> >>)

HostPool ==
    << Obj(<< <<"hostname", S("vc01")>>, <<"version", S("8.0.2")>>,
              <<"build", S("22617221")>>, <<"timezone", S("UTC")>>,
              <<"schedules", JList(<<SchedA, SchedB>>)>>, <<"job_details", JobOk>> >>),
       Obj(<< <<"hostname", S("vc02")>>, <<"job_details", Obj(<<>>)>> >>),
       Obj(<< <<"hostname", S("vc03")>>, <<"version", S("7.0.3")>>,
              <<"schedules", SchedMap>>, <<"job_details", JobIds>> >>),
       Obj(<< <<"value",
                Obj(<< <<"hostname", S("vc04")>>,
                       <<"schedules", Obj(<< <<"value", JList(<<SchedB>>)>> >>)>>,
                       <<"job_details", Obj(<< <<"value", JobTies>> >>)>> >>)>> >>),
       Obj(<< <<"hostname", S("vc05")>>, <<"schedules", JList(<<SchedA, SchedBad>>)>>,
              <<"job_details", JobOk>> >>),
       Obj(<< <<"hostname", S("vc06")>>, <<"schedules", S("none")>>,
              <<"job_details", JobBadId>> >>),
       Obj(<< <<"hostname", S("vc07")>>,
              <<"schedules",
                Obj(<< <<"schedules", JList(<<SchedC, N(5), SchedA, SchedD>>)>> >>)>>,
              <<"job_details", JobNeg>> >>),
       Obj(<< <<"value", S("vc08")>> >>) >>

\* the values the unwrapper and the schedule normalizer are run on, before
\* they are wrapped
BaseValues ==
    { JNull, JBool(TRUE), N(0), N(7), S("weekly"), JList(<<>>), Obj(<<>>),
      JList(<<SchedA, S("x"), N(3), SchedC>>), SchedMap, SchedB }

\* x inside an envelope, inside an envelope with two metadata keys, inside a
\* mapping too wide to be an envelope, and under the key `schedules`
Wrappings(x) ==
    { Obj(<< <<"value", x>> >>),
      Obj(<< <<"status", N(200)>>, <<"value", x>>, <<"id", S("r1")>> >>),
      Obj(<< <<"value", x>>, <<"a", N(1)>>, <<"b", N(2)>>, <<"c", N(3)>> >>),
      Obj(<< <<"schedules", x>> >>) }

RECURSIVE Wrapped(_, _)
Wrapped(base, n) ==
    IF n = 0 THEN base
    ELSE LET w == Wrapped(base, n - 1) IN w \cup UNION {Wrappings(x) : x \in w}

TimeInputs ==
    { JNull, S(""), S(NA), N(0), N(-1), N(T0), N(-100), JFloat(T0, 500, 0),
      JFloat(-1, 500, 0), JFloat(T0, 0, 3), JFloat(T0, 500, 3),
      JFloat(-100000000, 0, 3), JFloat(-60000000, 0, 3), JBool(TRUE),
      JList(<<N(T0)>>), Obj(<< <<"end", N(T0)>> >>),
      S("2024-01-01T02:15:00Z"), S("2024-01-01T02:15:00+05:30"),
      S("2024-01-01T02:15:00.250Z"), S("2024-01-01"), S("2024-01-01 09:06:40"),
      S("1969-12-31T23:59:59.5"), S("0099-01-01T00:00:00"),
      S("0001-01-01T00:00:00+05:00"), S("9999-12-31T23:00:00-05:00"),
      S("2024-02-30"), S(" 12 "), S("1704100000.25"), S("garbage"),
      S("2024-01-01T14:30:00-02:00") }

\* job records a history list is made of
JobPool ==
    { Obj(<< <<"status", S("first")>>, <<"end_time", N(T0)>> >>),
      Obj(<< <<"status", S("second")>>, <<"end_time", S("2024-01-01T09:06:40Z")>> >>),
      Obj(<< <<"status", S("older")>>, <<"end_time", N(T0 - 60)>>,
             <<"start_time", N(T0 - 120)>>, <<"size", N(6815744)>> >>),
      Obj(<< <<"status", S("started")>>, <<"start_time", N(T0 - 30)>>,
             <<"duration", S("45")>>, <<"backup_size", N(12)>> >>),
      JobNeg,
      Obj(<< <<"result", S("late")>>, <<"operation", S("backup")>>,
             <<"end", S("2024-01-01T09:06:40.500Z")>>, <<"start", N(T0)>>,
             <<"total_bytes", JFloat(2, 500, 0)>> >>) }

Tied(status) == Obj(<< <<"status", S(status)>>, <<"end_time", N(T0)>> >>)

\* every candidate ties: the mapping itself, one under `last`, two tagged copies
TieSelf ==
    Obj(<< <<"status", S("self")>>, <<"end_time", N(T0)>>, <<"late", Tied("tagged")>>,
           <<"last", Tied("nested")>> >>)
\* every candidate ties: none is the mapping itself, `details` comes after
\* `summary` and `zz` in the mapping
TieNested ==
    Obj(<< <<"zz", Tied("tagged")>>, <<"summary", Tied("s")>>, <<"details", Tied("d")>> >>)

\* job histories of other shapes
SpecialJobs ==
    { JNull, Obj(<<>>), S("text"), JobOk, JobIds, JobBadId,
      Obj(<< <<"value", JobTies>> >>),
      TieSelf, TieNested,
      Obj(<< <<"details",
               JList(<<Obj(<< <<"status", S("a")>>, <<"end_time", N(T0 - 1)>> >>), N(3),
                       Tied("b")>>)>>,
             <<"latest",
               Obj(<< <<"x", Obj(<< <<"status", S("c")>>, <<"end_time", N(T0)>>,
                                    <<"_job_id", S("keep")>> >>)>> >>)>> >>),
      Obj(<< <<"19691231-235959", Obj(<< <<"status", S("old")>>, <<"size", S("abc")>> >>)>>,
             <<"20240101-000000",
               Obj(<< <<"status", S("new")>>, <<"end_time", S("bad")>>,
                      <<"size", JBool(TRUE)>> >>)>> >>),
      Obj(<< <<"status", S("")>>, <<"state", N(0)>>, <<"size", JList(<<N(1)>>)>>,
             <<"duration", N(-3)>> >>),
      Obj(<< <<"status", Obj(<< <<"code", N(1)>> >>)>>, <<"start_time", N(T0)>>,
             <<"end_time", N(T0 - 5)>>, <<"duration", JFloat(3661, 900, 0)>>,
             <<"size", S("5242881")>> >>),
      Obj(<< <<"nightly", Obj(<< <<"status", S("kept")>>, <<"_job_id", S("keep")>> >>)>>,
             <<"most_recent", Obj(<< <<"status", S("recent")>>, <<"end_time", N(T0)>> >>)>> >>),
      Obj(<< <<"status", S("early")>>, <<"start_time", S("2024-01-01T09:06:40.500Z")>>,
             <<"end_time", N(T0)>>, <<"duration", N(90)>> >>),
      Obj(<< <<"status", S("backwards")>>, <<"start", N(T0)>>, <<"end", N(T0 - 5)>>,
             <<"duration", S("abc")>> >>),
      Obj(<< <<"20240101-020000", Obj(<< <<"status", S("explicit")>>,
                                         <<"end_time", N(-100)>> >>)>>,
             <<"20230101-020000", Obj(<< <<"status", S("byid")>> >>)>> >>),
      Obj(<< <<"20240103-020000-x",
               Obj(<< <<"status", S("started")>>, <<"start_time", S("2024-01-01T01:00:00Z")>>,
                      <<"duration", S("45")>> >>)>> >>),
      Obj(<< <<"20240104-020000",
               Obj(<< <<"status", S("open")>>, <<"start", N(T0)>>, <<"end_time", N(0)>> >>)>> >>) }

\* the sequences over a set, up to a length
SeqsUpTo(set, n) == UNION {[1..k -> set] : k \in 0..n}

----------------------------------------------------------------------------
(* build_rows(all_data), called by write_csv; a caller may call it again   *)

MaxHosts == 2

Init ==
    /\ all_data \in {s \in SeqsUpTo(SeqRange(HostPool), MaxHosts) : s # <<>>}
    /\ snapshot = all_data
    /\ idx = 1
    /\ rows = <<>>
    /\ pc = "loop"
    /\ arg = JNull
    /\ ret = <<>>
    /\ padYear \in BOOLEAN

\* an iteration that appends its rows and goes on to the next host record
Appended(run, has_schedules) ==
    /\ ~run.raised /\ (run.n > 0) = has_schedules
    /\ rows' = AppendRows(rows, run.rows)
    /\ all_data' = [all_data EXCEPT ![idx] = run.obj]
    /\ idx' = idx + 1
    /\ UNCHANGED <<pc, snapshot, arg, ret, padYear>>

\* an iteration whose host record has no schedule: one placeholder row
AppendPlaceholder ==
    pc = "loop" /\ idx <= Len(all_data) /\ Appended(HostRun(all_data[idx]), FALSE)

\* an iteration whose host record has schedules: one row for each
AppendScheduleRows ==
    pc = "loop" /\ idx <= Len(all_data) /\ Appended(HostRun(all_data[idx]), TRUE)

\* an iteration an exception ends: it leaves build_rows, nothing is returned
Raised(run) ==
    /\ run.raised
    /\ rows' = AppendRows(rows, run.rows)
    /\ all_data' = [all_data EXCEPT ![idx] = run.obj]
    /\ pc' = "raised"
    /\ ret' = Append(ret, run.exc)
    /\ UNCHANGED <<idx, snapshot, arg, padYear>>
Propagate ==
    pc = "loop" /\ idx <= Len(all_data) /\ Raised(HostRun(all_data[idx]))

\* return rows
Return ==
    /\ pc = "loop" /\ idx > Len(all_data)
    /\ pc' = "returned"
    /\ ret' = Append(ret, [t |-> "rows", rows |-> rows])
    /\ UNCHANGED <<all_data, snapshot, idx, rows, arg, padYear>>

\* the caller passes the same list to build_rows once more
CallAgain ==
    /\ pc \in {"returned", "raised"} /\ Len(ret) = 1
    /\ pc' = "loop"
    /\ idx' = 1
    /\ rows' = <<>>
    /\ UNCHANGED <<all_data, snapshot, arg, ret, padYear>>

Next == AppendPlaceholder \/ AppendScheduleRows \/ Propagate \/ Return \/ CallAgain

Spec == Init /\ [][Next]_vars

----------------------------------------------------------------------------
(* unwrap_api_payload(value), applied to a value and then to its result    *)

MaxWrap == 2

InitUnwrap ==
    /\ arg \in Wrapped(BaseValues, MaxWrap)
    /\ pc = "unwrap"
    /\ ret = <<>>
    /\ all_data = <<>> /\ snapshot = <<>> /\ idx = 0 /\ rows = <<>>
    /\ padYear = FALSE

UnwrapOnce ==
    /\ pc = "unwrap" /\ ret = <<>>
    /\ ret' = <<unwrap_api_payload(arg)>>
    /\ UNCHANGED <<pc, all_data, snapshot, idx, rows, arg, padYear>>

UnwrapAgain ==
    /\ pc = "unwrap" /\ Len(ret) = 1
    /\ ret' = Append(ret, unwrap_api_payload(ret[1]))
    /\ pc' = "done"
    /\ UNCHANGED <<all_data, snapshot, idx, rows, arg, padYear>>

NextUnwrap == UnwrapOnce \/ UnwrapAgain

SpecUnwrap == InitUnwrap /\ [][NextUnwrap]_vars

----------------------------------------------------------------------------
(* normalize_schedules(schedules_obj)                                      *)

InitNormalize ==
    /\ arg \in Wrapped(BaseValues, MaxWrap)
    /\ pc = "normalize"
    /\ ret = <<>>
    /\ all_data = <<>> /\ snapshot = <<>> /\ idx = 0 /\ rows = <<>>
    /\ padYear = FALSE

Normalize ==
    /\ pc = "normalize"
    /\ ret' = <<normalize_schedules(arg)>>
    /\ pc' = "done"
    /\ UNCHANGED <<all_data, snapshot, idx, rows, arg, padYear>>

NextNormalize == Normalize

SpecNormalize == InitNormalize /\ [][NextNormalize]_vars

----------------------------------------------------------------------------
(* parse_time(value), and parse_time of what it formatted                  *)

InitTime ==
    /\ arg \in TimeInputs
    /\ padYear \in BOOLEAN
    /\ pc = "parse"
    /\ ret = <<>>
    /\ all_data = <<>> /\ snapshot = <<>> /\ idx = 0 /\ rows = <<>>

ParseTime ==
    /\ pc = "parse"
    /\ ret' = <<parse_time(arg)>>
    /\ pc' = IF parse_time(arg).dt.ok THEN "parsed" ELSE "done"
    /\ UNCHANGED <<all_data, snapshot, idx, rows, arg, padYear>>

\* the formatted string goes back in, without the " UTC" that %Z appended
ParseFormatted ==
    /\ pc = "parsed"
    /\ ret' = Append(ret, parse_time(JStr(SubSeq(ret[1].str, 1, Len(ret[1].str) - Len(" UTC")))))
    /\ pc' = "done"
    /\ UNCHANGED <<all_data, snapshot, idx, rows, arg, padYear>>

NextTime == ParseTime \/ ParseFormatted

SpecTime == InitTime /\ [][NextTime]_vars

----------------------------------------------------------------------------
(* extract_last_job(job_obj)                                               *)

MaxJobs == 2

\* the keys of an id-keyed job map
IdKeys == <<"20240103-010000-a", "b", "c", "d">>
IdKeyed(jobs) == JDict([i \in 1..Len(jobs) |-> KV(IdKeys[i], jobs[i])])

JobInputs ==
    SpecialJobs
    \cup {JList(s) : s \in SeqsUpTo(JobPool, MaxJobs)}
    \cup {IdKeyed(s) : s \in SeqsUpTo(JobPool, MaxJobs)}

InitJob ==
    /\ arg \in JobInputs
    /\ padYear \in BOOLEAN
    /\ pc = "extract"
    /\ ret = <<>>
    /\ all_data = <<>> /\ snapshot = <<>> /\ idx = 0 /\ rows = <<>>

\* extract_last_job ends: with the sentinel ("none"), with a summary
\* ("summary"), or with the exception of _rank_job ("raised")
Ended(run, how) ==
    /\ how = (IF IsRaise(run.ret) THEN "raised" ELSE IF run.n = 0 THEN "none" ELSE "summary")
    /\ ret' = <<run.ret>>
    /\ arg' = run.obj
    /\ pc' = IF how = "raised" THEN "raised" ELSE "done"
    /\ UNCHANGED <<all_data, snapshot, idx, rows, padYear>>

\* `if not candidates: return {...}`
ReturnNoJob == pc = "extract" /\ Ended(ExtractRun(arg), "none")

\* the summary of the candidate sorted first
ReturnSummary == pc = "extract" /\ Ended(ExtractRun(arg), "summary")

\* _rank_job raises inside sorted()
RaiseFromRank == pc = "extract" /\ Ended(ExtractRun(arg), "raised")

NextJob == ReturnNoJob \/ ReturnSummary \/ RaiseFromRank

SpecJob == InitJob /\ [][NextJob]_vars

----------------------------------------------------------------------------
(* _rank_job(job), and extract_last_job of the same record                 *)

\* the end field of a job record, the start field, the `_job_id`: each may be
\* missing
EndEntries ==
    { <<>>, <<KV("completed", N(T0))>>, <<KV("completed", N(0))>>,
      <<KV("completed", N(-100))>>, <<KV("completed", JFloat(20000000, 0, 3))>>,
      <<KV("end_time", N(T0))>>, <<KV("end", S("1969-12-31T23:59:59Z"))>>,
      <<KV("finish_time", S("bad"))>>,
      <<KV("completion_time", S("2023-06-01T00:00:00+02:00"))>>,
      <<KV("end_time", S("")), KV("end", N(T0 - 60))>> }
StartEntries == { <<>>, <<KV("start_time", N(T0 - 30))>> }
IdEntries ==
    { <<>>, <<KV("_job_id", S("20240101-020000"))>>, <<KV("_job_id", S("20241340-000000"))>>,
      <<KV("_job_id", S("19691231-235959-x"))>>, <<KV("_job_id", S("nightly"))>>,
      <<KV("_job_id", N(20240101))>> }

RankInputs == {JDict(e \o s \o i) : e \in EndEntries, s \in StartEntries, i \in IdEntries}

InitRank ==
    /\ arg \in RankInputs
    /\ padYear \in BOOLEAN
    /\ pc = "rank"
    /\ ret = <<>>
    /\ all_data = <<>> /\ snapshot = <<>> /\ idx = 0 /\ rows = <<>>

\* _rank_job returns its pair, or strptime raises
RankedAs(rank) ==
    /\ ret' = <<rank>>
    /\ pc' = IF IsRaise(rank) THEN "raised" ELSE "ranked"
    /\ UNCHANGED <<all_data, snapshot, idx, rows, arg, padYear>>
RankJob == pc = "rank" /\ RankedAs(rank_job(arg))

\* extract_last_job returns its summary, or raises
SummarizedAs(run) ==
    /\ ret' = Append(ret, run.ret)
    /\ arg' = run.obj
    /\ pc' = IF IsRaise(run.ret) THEN "raised" ELSE "done"
    /\ UNCHANGED <<all_data, snapshot, idx, rows, padYear>>
SummarizeRanked == pc = "ranked" /\ SummarizedAs(ExtractRun(arg))

NextRank == RankJob \/ SummarizeRanked

SpecRank == InitRank /\ [][NextRank]_vars

----------------------------------------------------------------------------
(* find_all(obj, keys)                                                     *)

\* node trees in which a key occurs at several depths
FindObjects ==
    { Obj(<< <<"a", Obj(<< <<"x", N(1)>> >>)>>, <<"x", N(2)>> >>),
      Obj(<< <<"x", N(2)>>, <<"a", Obj(<< <<"x", N(1)>> >>)>> >>),
      Obj(<< <<"a", JList(<<Obj(<< <<"x", N(1)>> >>)>>)>>, <<"x", N(2)>>, <<"y", S("top")>> >>),
      Obj(<< <<"x", S("")>>, <<"a", Obj(<< <<"x", N(1)>> >>)>> >>),
      Obj(<< <<"a", Obj(<< <<"x", JNull>>, <<"y", JList(<<>>)>> >>)>>,
             <<"b", Obj(<< <<"x", N(3)>>, <<"y", N(4)>> >>)>> >>),
      JList(<<Obj(<< <<"x", N(1)>> >>), Obj(<< <<"x", N(2)>>, <<"y", N(5)>> >>)>>),
      Obj(<< <<"a", Obj(<< <<"b", Obj(<< <<"x", N(1)>> >>)>> >>)>>,
             <<"c", Obj(<< <<"x", N(2)>> >>)>>, <<"x", N(3)>> >>),
      Obj(<< <<"x", N(0)>>, <<"a", Obj(<< <<"x", N(1)>>, <<"y", JBool(FALSE)>> >>)>> >>),
      Obj(<< <<"x", Obj(<< <<"x", N(1)>>, <<"y", N(2)>> >>)>>, <<"y", N(3)>> >>),
      Obj(<< <<"y", Obj(<< <<"x", N(1)>> >>)>>, <<"x", N(2)>>,
             <<"z", Obj(<< <<"y", N(3)>> >>)>> >>),
      N(5), S("x"), JNull, SchedA, SchedB, SchedD, SchedMap }
FindKeys == { {}, {"x"}, {"y"}, {"x", "y"}, {"a", "x"}, {"hour", "minute", "days", "count"} }

InitFind ==
    /\ arg \in [obj : FindObjects, keys : FindKeys]
    /\ pc = "find"
    /\ ret = <<>>
    /\ all_data = <<>> /\ snapshot = <<>> /\ idx = 0 /\ rows = <<>>
    /\ padYear = FALSE

FindAll ==
    /\ pc = "find"
    /\ ret' = <<find_all(arg.obj, arg.keys)>>
    /\ pc' = "done"
    /\ UNCHANGED <<all_data, snapshot, idx, rows, arg, padYear>>

NextFind == FindAll

SpecFind == InitFind /\ [][NextFind]_vars

----------------------------------------------------------------------------
(* extract_retention, extract_recurrence, get_enabled of one schedule      *)

RetentionSchedules ==
    { Obj(<< <<"max_count", N(5)>>, <<"retention", Obj(<< <<"weeks", N(2)>> >>)>> >>),
      Obj(<< <<"retention", Obj(<< <<"weeks", N(2)>>, <<"num_backups", N(3)>> >>)>> >>),
      Obj(<< <<"retention_policy", Obj(<< <<"x", Obj(<< <<"weeks", N(2)>> >>)>> >>)>> >>),
      Obj(<< <<"count", N(3)>>, <<"days", N(7)>>, <<"max_count", N(10)>>, <<"months", S("")>> >>),
      Obj(<< <<"retention", Obj(<< <<"keep", S("all")>> >>)>> >>),
      Obj(<< <<"max_count", N(3)>>, <<"x", Obj(<< <<"days", S("")>> >>)>>,
             <<"y", JList(<<Obj(<< <<"days", N(0)>> >>), Obj(<< <<"days", N(7)>> >>)>>)>> >>),
      Obj(<< <<"days", JList(<<>>)>>, <<"note", S("none")>> >>),
      Obj(<< <<"retention_info", S("x")>>,
             <<"retention_policy", Obj(<< <<"months", N(6)>>, <<"count", JNull>> >>)>>,
             <<"weeks", N(1)>> >>) }
RecurrenceSchedules ==
    { Obj(<< <<"cron", S("0 2 * * *")>>, <<"hour", N(2)>>, <<"minute", N(30)>>,
             <<"days", JList(<<N(1), N(3), N(5)>>)>> >>),
      Obj(<< <<"cron_expr", S("5 4 * * 0")>>, <<"recurrence", S("daily")>> >>),
      Obj(<< <<"frequency", S("monthly")>>, <<"time", S("23:59")>>,
             <<"days", JList(<<S("mon"), S("Saturday"), N(7)>>)>> >>),
      Obj(<< <<"period", S("hourly")>> >>),
      Obj(<< <<"days", JList(<<N(1)>>)>> >>),
      Obj(<< <<"hour", N(5)>> >>),
      Obj(<< <<"type", S("weekly")>>, <<"hour", N(1)>>, <<"minute", N(5)>> >>),
      Obj(<< <<"schedule", JList(<<N(1)>>)>>, <<"time", S("4:05")>> >>),
      Obj(<< <<"recurrence_info", Obj(<< <<"days", JList(<<N(2)>>)>> >>)>>,
             <<"time", S(" 7:15 ")>> >>) }
EnabledSchedules ==
    { Obj(<< <<"cfg", Obj(<< <<"enabled", JBool(FALSE)>>, <<"state", S("active")>> >>)>> >>),
      Obj(<< <<"cfg", Obj(<< <<"status", S("off")>>, <<"enabled", JBool(TRUE)>> >>)>> >>),
      Obj(<< <<"enabled", S("false")>>, <<"state", JBool(FALSE)>> >>),
      Obj(<< <<"state", S("off")>>, <<"status", JBool(TRUE)>> >>),
      Obj(<< <<"x", Obj(<< <<"enabled", N(1)>> >>)>> >>),
      Obj(<< <<"state", S("off")>>, <<"x", Obj(<< <<"enabled", JBool(TRUE)>> >>)>> >>),
      Obj(<< <<"enabled", JNull>>, <<"state", S("active")>> >>),
      Obj(<< <<"enable", N(0)>>, <<"status", S("on")>> >>),
      Obj(<< <<"status", S("ON")>> >>),
      Obj(<< <<"state", S("Disabled")>> >>),
      Obj(<<>>),
      Obj(<< <<"state", N(1)>> >>),
      Obj(<< <<"x", JList(<<Obj(<< <<"enable", S("Active")>> >>)>>)>> >>),
      Obj(<< <<"state", JBool(FALSE)>>, <<"status", S("enabled")>> >>) }

ScheduleInputs ==
    {SchedA, SchedB, SchedC, SchedD, SchedBad}
    \cup RetentionSchedules \cup RecurrenceSchedules \cup EnabledSchedules

InitField ==
    /\ arg \in ScheduleInputs
    /\ pc = "field"
    /\ ret = <<>>
    /\ all_data = <<>> /\ snapshot = <<>> /\ idx = 0 /\ rows = <<>>
    /\ padYear = FALSE

ExtractRetention ==
    /\ pc = "field"
    /\ ret' = <<JStr(extract_retention(arg))>>
    /\ pc' = "retention"
    /\ UNCHANGED <<all_data, snapshot, idx, rows, arg, padYear>>

\* extract_recurrence returns its description, or recurrence.get raises
RecurrenceAs(recurrence) ==
    /\ ret' = <<recurrence>>
    /\ pc' = IF IsRaise(recurrence) THEN "raised" ELSE "recurrence"
    /\ UNCHANGED <<all_data, snapshot, idx, rows, arg, padYear>>
ExtractRecurrence == pc = "field" /\ RecurrenceAs(extract_recurrence(arg))

GetEnabled ==
    /\ pc = "field"
    /\ ret' = <<JBool(get_enabled(arg))>>
    /\ pc' = "enabled"
    /\ UNCHANGED <<all_data, snapshot, idx, rows, arg, padYear>>

NextField == ExtractRetention \/ ExtractRecurrence \/ GetEnabled

SpecField == InitField /\ [][NextField]_vars

----------------------------------------------------------------------------
(* Properties of build_rows, checked under Spec                            *)

\* the rows a finished call handed to its caller: none when it raised
Returned == IF pc = "returned" THEN ret[Len(ret)].rows ELSE <<>>

SchedulesOf(record) == normalize_schedules(Get(unwrap_api_payload(record), "schedules"))
RowCount(record) == IF SchedulesOf(record) = <<>> THEN 1 ELSE Len(SchedulesOf(record))

\* the number of rows the host records before the k-th are due
RECURSIVE RowsBefore(_, _)
RowsBefore(data, k) ==
    IF k = 1 THEN 0 ELSE RowsBefore(data, k - 1) + RowCount(data[k - 1])

ScheduleColumns == <<"Enabled", "Backup Location", "Type", "Recurrence", "Retention", "Last Job">>
JobColumns == <<"Status", "Start", "End", "Duration", "Size (MB)">>
Cells(row, columns) == [i \in 1..Len(columns) |-> Col(row, columns[i])]

AllMappings(data) == \A k \in 1..Len(data) : IsDict(unwrap_api_payload(data[k]))

\* C1: once build_rows has ended on host records that are mappings, every host
\* record has its rows in the output: one row with schedule count 0 and the
\* six schedule cells "N/A" when it has no normalized schedule, N rows with
\* schedule count N when it has N > 0, and the rows of one host carry the same
\* five job cells
C1_RowsPerHost ==
    (pc \in {"returned", "raised"} /\ AllMappings(snapshot)) =>
        /\ Len(Returned) = RowsBefore(snapshot, Len(snapshot) + 1)
        /\ \A k \in 1..Len(snapshot) : \A i \in 1..RowCount(snapshot[k]) :
             LET row == Returned[RowsBefore(snapshot, k) + i]
                 first == Returned[RowsBefore(snapshot, k) + 1]
             IN /\ Col(row, "Schedules") = JInt(Len(SchedulesOf(snapshot[k])))
                /\ Cells(row, JobColumns) = Cells(first, JobColumns)
                /\ SchedulesOf(snapshot[k]) = <<>> =>
                       Cells(row, ScheduleColumns) = [c \in 1..Len(ScheduleColumns) |-> JStr(NA)]

\* C2: build_rows never raises on host records that are JSON mappings
C2_NeverRaises == pc # "raised"

\* the (vCenter, Backup Location) pairs one host record is due, in the order of
\* its normalized schedules
HostKeys(record) ==
    IF SchedulesOf(record) = <<>>
    THEN << <<GetD(unwrap_api_payload(record), "hostname", JStr(NA)), JStr(NA)>> >>
    ELSE [j \in 1..Len(SchedulesOf(record)) |->
            <<GetD(unwrap_api_payload(record), "hostname", JStr(NA)),
              JStr(get_location(SchedulesOf(record)[j]))>>]
RECURSIVE ExpectedKeys(_)
ExpectedKeys(data) ==
    IF data = <<>> THEN <<>>
    ELSE ExpectedKeys(SubSeq(data, 1, Len(data) - 1)) \o HostKeys(data[Len(data)])
RowKeys(out) == [i \in 1..Len(out) |-> <<Col(out[i], "vCenter"), Col(out[i], "Backup Location")>>]

\* C7: the rows build_rows returns follow the input: the rows of an earlier
\* host record come before those of a later one, and the rows of one host
\* record follow the order of its normalized schedules (the order of the list,
\* or of the entries of an id-keyed map)
C7_OrderPreserved ==
    pc = "returned" =>
        /\ RowKeys(Returned) = ExpectedKeys(snapshot)
        /\ \A k \in 1..Len(snapshot) :
             /\ snapshot[k] = HostPool[1] =>
                    HostKeys(snapshot[k]) = << <<JStr("vc01"), JStr("nfs://backup1")>>,
                                               <<JStr("vc01"), JStr("ftp://b2")>> >>
             /\ snapshot[k] = HostPool[3] =>
                    HostKeys(snapshot[k]) = << <<JStr("vc03"), JStr("sftp://b3")>>,
                                               <<JStr("vc03"), JStr("smb://b4")>> >>

\* two different host records, each with two schedules, made it to the output
C7_Witness ==
    /\ pc = "returned" /\ Len(snapshot) = 2
    /\ snapshot[1] = HostPool[3] /\ snapshot[2] = HostPool[1]
    /\ Len(Returned) = 4

\* C10: build_rows leaves the host records it was given as they were, nested
\* schedule and job mappings included, and a second call on the same list
\* ends as the first did, with the same rows
C10_InputUnchanged ==
    /\ all_data = snapshot
    /\ (Len(ret) = 2 => ret[2] = ret[1])

\* a second call has returned rows for a host record whose id-keyed schedule
\* map has an entry without `id` and whose job map has entries to tag
C10_Witness ==
    /\ Len(ret) = 2 /\ pc = "returned"
    /\ \E k \in 1..Len(snapshot) :
         LET schedules_obj == Get(snapshot[k], "schedules")
             job_obj == Get(snapshot[k], "job_details")
         IN /\ IsDict(schedules_obj) /\ IsDict(job_obj)
            /\ \E i \in 1..Len(schedules_obj.d) :
                 /\ IsDict(schedules_obj.d[i].v) /\ ~HasKey(schedules_obj.d[i].v, "id")
                 /\ \E s \in SeqRange(SchedulesOf(snapshot[k])) :
                      Get(s, "id") = JStr(schedules_obj.d[i].k)
            /\ \E c \in SeqRange(collect_job_candidates(job_obj)) :
                 HasKey(c, "_job_id") /\ \A i \in 1..Len(job_obj.d) : ~HasKey(job_obj.d[i].v, "_job_id")

----------------------------------------------------------------------------
(* Properties of unwrap_api_payload and normalize_schedules                *)

\* C3: unwrap_api_payload applied to its own result returns that result
C3_UnwrapIdempotent == Len(ret) = 2 => ret[2] = ret[1]

\* C6: normalize_schedules returns a sequence of mappings, and the empty
\* sequence when the unwrapped input is neither a mapping nor a sequence
C6_NormalizeReturnsMappings ==
    pc = "done" =>
        /\ DOMAIN ret[1] = 1..Len(ret[1])
        /\ \A i \in 1..Len(ret[1]) : IsDict(ret[1][i])
        /\ (~IsDict(unwrap_api_payload(arg)) /\ ~IsList(unwrap_api_payload(arg))) => ret[1] = <<>>

\* a non-empty string inside an envelope was normalized to no schedule
C6_Witness ==
    /\ pc = "done" /\ IsEnvelope(arg)
    /\ IsStr(unwrap_api_payload(arg)) /\ unwrap_api_payload(arg).s # ""
    /\ ret[1] = <<>>

----------------------------------------------------------------------------
(* Properties of parse_time, checked under SpecTime                        *)

\* C8 as stated: parse_time of the formatted string, the " UTC" taken off,
\* returns the instant and the string of the first parse
C8_RoundTrip ==
    Len(ret) = 2 => (ret[2].dt = ret[1].dt /\ ret[2].str = ret[1].str)

\* C8: when the first parse gave an instant of a year from 1000 on, parse_time
\* of the formatted string, the " UTC" taken off, returns the same string and
\* the instant of the first parse cut to the whole second
C8_RoundTripWholeSeconds ==
    (Len(ret) = 2 /\ CivilFromDays(ret[1].dt.d).y >= 1000) =>
        /\ ret[2].str = ret[1].str
        /\ ret[2].dt = [ret[1].dt EXCEPT !.us = 0]

\* an instant with a fraction of a second went round
C8_Witness ==
    /\ Len(ret) = 2 /\ ret[1].dt.us # 0 /\ CivilFromDays(ret[1].dt.d).y >= 1000
    /\ ret[2].dt.ok

----------------------------------------------------------------------------
(* Properties of extract_last_job, checked under SpecJob                   *)

\* candidate i has a pair no other candidate's pair is strictly greater than
IsGreatest(candidates, i) ==
    \A j \in 1..Len(candidates) : ~RankLess(rank_job(candidates[i]), rank_job(candidates[j]))

\* C4: among the candidates that tie on the greatest (end_score, start_score),
\* the summary is built from the one collected first: the mapping itself comes
\* before what is under details, last, latest, most_recent, summary, and those
\* before the tagged copies
C4_StableUnderTies ==
    (pc = "done" /\ collect_job_candidates(arg) # <<>>) =>
        /\ \E i \in 1..Len(collect_job_candidates(arg)) :
             /\ IsGreatest(collect_job_candidates(arg), i)
             /\ \A j \in 1..(i - 1) : ~IsGreatest(collect_job_candidates(arg), j)
             /\ ret[1] = JobSummary(collect_job_candidates(arg)[i])
        /\ arg = TieSelf => ret[1].status = "SELF"
        /\ arg = TieNested => ret[1].status = "D"

\* two candidates with different summaries tie on the greatest pair
C4_Witness ==
    /\ pc = "done"
    /\ \E i, j \in 1..Len(collect_job_candidates(arg)) :
         /\ i < j
         /\ IsGreatest(collect_job_candidates(arg), i)
         /\ IsGreatest(collect_job_candidates(arg), j)
         /\ JobSummary(collect_job_candidates(arg)[i]) # JobSummary(collect_job_candidates(arg)[j])

\* C5: the summary is built from a candidate no other candidate outranks, and
\* without candidates it is status "NO JOB", the three strings "N/A", size 0
C5_SelectsGreatest ==
    pc = "done" =>
        /\ collect_job_candidates(arg) = <<>> =>
             /\ ret[1].status = "NO JOB" /\ ret[1].start_str = "N/A"
             /\ ret[1].end_str = "N/A" /\ ret[1].duration_str = "N/A"
             /\ ret[1].size_mb = 0
        /\ collect_job_candidates(arg) # <<>> =>
             \E i \in 1..Len(collect_job_candidates(arg)) :
                /\ IsGreatest(collect_job_candidates(arg), i)
                /\ ret[1] = JobSummary(collect_job_candidates(arg)[i])

\* the candidate collected first is outranked, and a summary came back
C5_Witness ==
    /\ pc = "done" /\ Len(collect_job_candidates(arg)) >= 2
    /\ ~IsGreatest(collect_job_candidates(arg), 1)

\* C9: the size_mb of a job summary is never negative
C9_SizeNonNegative == pc = "done" => ret[1].size_mb >= 0

\* an id-keyed job map: no job itself, no envelope, every entry a job-like
\* mapping under a key of its own choosing, without an end field and without
\* a `_job_id`
IdKeyedNoEnd(job_obj) ==
    /\ IsDict(job_obj) /\ job_obj.d # <<>>
    /\ ~HasKey(job_obj, "value") /\ \A k \in JobKeys : ~HasKey(job_obj, k)
    /\ \A i \in 1..Len(job_obj.d) :
         /\ job_obj.d[i].k \notin SeqRange(NestedJobKeys)
         /\ IsDict(job_obj.d[i].v)
         /\ \E k \in JobKeys : HasKey(job_obj.d[i].v, k)
         /\ \A k \in SeqRange(EndKeys) \cup {"_job_id"} : ~HasKey(job_obj.d[i].v, k)

\* eight digits, a dash, six digits at the start of a key
StartsWithStamp(key) ==
    /\ Len(key) >= 15
    /\ \A i \in (1..8) \cup (10..15) : SubSeq(key, i, i) \in SeqRange(<<"0", "1", "2", "3", "4", "5", "6", "7", "8", "9">>)
    /\ SubSeq(key, 9, 9) = "-"

\* the digits of a key read as YYYYMMDDHHMMSS in UTC: day and second of the day
StampOf(key) ==
    [d |-> DaysFromCivil(DigitsVal(SubSeq(key, 1, 4)), DigitsVal(SubSeq(key, 5, 6)),
                         DigitsVal(SubSeq(key, 7, 8))),
     s |-> DigitsVal(SubSeq(key, 10, 11)) * 3600 + DigitsVal(SubSeq(key, 12, 13)) * 60
           + DigitsVal(SubSeq(key, 14, 15)),
     us |-> 0]

\* the entry of an id-keyed map with its key added as `_job_id`
TaggedEntry(e) == JDict(Append(e.v.d, KV("_job_id", JStr(e.k))))

\* C11: extract_last_job on an id-keyed job map whose entries have no end
\* field collects one candidate for each entry, tagged with `_job_id` equal to
\* its key; a key that starts with 8 digits, a dash and 6 digits gives its
\* candidate the end_score of those digits read as YYYYMMDDHHMMSS in UTC; and
\* when every key is of that form the summary is of an entry with the latest
\* embedded date
C11_IdStampRanks ==
    (pc # "extract" /\ IdKeyedNoEnd(arg)) =>
        /\ collect_job_candidates(arg) = [i \in 1..Len(arg.d) |-> TaggedEntry(arg.d[i])]
        /\ \A i \in 1..Len(arg.d) :
             StartsWithStamp(arg.d[i].k) =>
                /\ rank_job(TaggedEntry(arg.d[i])).t = "rank"
                /\ rank_job(TaggedEntry(arg.d[i])).end_score = StampOf(arg.d[i].k)
        /\ (\A i \in 1..Len(arg.d) : StartsWithStamp(arg.d[i].k)) =>
             /\ pc = "done"
             /\ \E i \in 1..Len(arg.d) :
                  /\ \A j \in 1..Len(arg.d) : ~ScoreLess(StampOf(arg.d[i].k), StampOf(arg.d[j].k))
                  /\ ret[1] = JobSummary(TaggedEntry(arg.d[i]))

----------------------------------------------------------------------------
(* Properties of _rank_job, checked under SpecRank                         *)

\* n seconds after the epoch as a score: day and second of the day
ScoreOf(n) == [d |-> n \div 86400, s |-> n % 86400, us |-> 0]

\* C12: a job record whose only field is `completed`, holding epoch seconds,
\* is ranked with end_score equal to that value and start_score -1, and the
\* summary extract_last_job produces for it has duration_str "N/A"
C12_CompletedOnly ==
    (Len(arg.d) = 1 /\ arg.d[1].k = "completed" /\ arg.d[1].v.t = "int") =>
        /\ Len(ret) >= 1 =>
             ret[1] = [t |-> "rank", end_score |-> ScoreOf(arg.d[1].v.n),
                       start_score |-> ScoreOf(-1)]
        /\ Len(ret) = 2 => ret[2].duration_str = "N/A"

\* C13: whenever the end field of a candidate parses to an instant, end_score
\* is the timestamp of that instant, whatever its `_job_id` is, instants
\* before 1970-01-01 included
C13_ExplicitEndWins ==
    (Len(ret) >= 1 /\ parse_time(FirstTruthy(arg, EndKeys)).dt.ok) =>
        /\ ret[1].t = "rank"
        /\ ret[1].end_score.d = parse_time(FirstTruthy(arg, EndKeys)).dt.d
        /\ ret[1].end_score.s = parse_time(FirstTruthy(arg, EndKeys)).dt.s
        /\ ret[1].end_score.us = parse_time(FirstTruthy(arg, EndKeys)).dt.us

----------------------------------------------------------------------------
(* Properties of find_all, checked under SpecFind                          *)

\* C14: find_all visits the keys of a mapping before it descends into the
\* values: a requested key that the mapping holds itself with a non-empty
\* value is returned with that value, also when the key occurs below an
\* earlier sibling key of the mapping
C14_OwnKeysFirst ==
    (pc = "done" /\ IsDict(arg.obj)) =>
        \A k \in arg.keys :
            (HasKey(arg.obj, k) /\ Get(arg.obj, k) \notin {JNull, JStr(""), JList(<<>>)}) =>
                /\ HasKey(ret[1], k)
                /\ Get(ret[1], k) = Get(arg.obj, k)

----------------------------------------------------------------------------
(* Properties of _collect_job_candidates, checked under SpecJob            *)

\* C15: _collect_job_candidates on a mapping adds no tagged copy for a
\* job-like mapping under details, last, latest, most_recent or summary, and
\* a job-like mapping that has a `_job_id` is collected with the one it has
C15_NoTagUnderNestedKeys ==
    (pc # "extract" /\ IsDict(arg) /\ ~HasKey(arg, "value")) =>
        \A i \in 1..Len(arg.d) :
            (IsDict(arg.d[i].v) /\ \E k \in JobKeys : HasKey(arg.d[i].v, k)) =>
                /\ (arg.d[i].k \in {"details", "last", "latest", "most_recent", "summary"}
                    /\ ~HasKey(arg.d[i].v, "_job_id")) =>
                       \A n \in 1..Len(collect_job_candidates(arg)) :
                           collect_job_candidates(arg)[n] # TaggedEntry(arg.d[i])
                /\ HasKey(arg.d[i].v, "_job_id") =>
                       /\ \E n \in 1..Len(collect_job_candidates(arg)) :
                              collect_job_candidates(arg)[n] = arg.d[i].v
                       /\ \A n \in 1..Len(collect_job_candidates(arg)) :
                              collect_job_candidates(arg)[n] # WithValue(arg.d[i].v, "_job_id", JStr(arg.d[i].k))

----------------------------------------------------------------------------
(* Properties of the field extractors, checked under SpecField             *)

\* the keys of ks the mapping holds with a non-empty value, in the order of ks
RECURSIVE NonEmptyKeys(_, _)
NonEmptyKeys(j, ks) ==
    IF ks = <<>> THEN <<>>
    ELSE (IF HasKey(j, Head(ks)) /\ Get(j, Head(ks)) \notin {JNull, JStr(""), JList(<<>>)}
          THEN <<Head(ks)>> ELSE <<>>)
         \o NonEmptyKeys(j, Tail(ks))

\* "k1=v1, k2=v2, ..." for the keys ks of the mapping
RECURSIVE KeyValueList(_, _)
KeyValueList(j, ks) ==
    IF ks = <<>> THEN ""
    ELSE Head(ks) \o "=" \o PyStr(Get(j, Head(ks)))
         \o (IF Len(ks) = 1 THEN "" ELSE ", " \o KeyValueList(j, Tail(ks)))

\* retention keys with a non-empty value in a retention, retention_info or
\* retention_policy sub-mapping of the schedule that the schedule does not
\* hold itself
NestedOnlyKeys(schedule) ==
    {k \in {"max_count", "num_backups", "count", "days", "weeks", "months"} :
        /\ ~HasKey(schedule, k)
        /\ \E r \in {"retention", "retention_info", "retention_policy"} :
             /\ IsDict(Get(schedule, r))
             /\ NonEmptyKeys(Get(schedule, r), <<k>>) # <<>>}

\* C16: when a schedule has retention keys at its top level and others only in
\* a nested retention sub-mapping, extract_retention lists the non-empty
\* top-level keys alone, in the order max_count, num_backups, count, days,
\* weeks, months
C16_TiersNotMerged ==
    (/\ pc = "retention"
     /\ NonEmptyKeys(arg, <<"max_count", "num_backups", "count", "days", "weeks", "months">>) # <<>>
     /\ NestedOnlyKeys(arg) # {}) =>
        ret[1] = JStr(KeyValueList(arg, NonEmptyKeys(arg, <<"max_count", "num_backups", "count",
                                                           "days", "weeks", "months">>)))

\* the recurrence, schedule or recurrence_info sub-mapping of a schedule
SecondarySource(schedule) ==
    LET r == PyOr(Get(schedule, "recurrence"),
                  PyOr(Get(schedule, "schedule"), Get(schedule, "recurrence_info")))
    IN IF IsDict(r) THEN r ELSE JDict(<<>>)

\* C19: extract_recurrence returns the output of the first rule that applies:
\* "CRON <expr>" for a cron value, else "<PERIOD or WEEKLY> <HH:MM> <DAYS>" for
\* a days list with a time, else "<PERIOD> <HH:MM>", else "DAILY <HH:MM>", else
\* "N/A"; hour 2, minute 30, days [1,3,5] without a period give
\* "WEEKLY 02:30 MONDAY,WEDNESDAY,FRIDAY"
C19_RecurrencePrecedence ==
    pc \in {"recurrence", "raised"} =>
        /\ ret[1] = RecurrenceOf(SecondarySource(arg), find_all(arg, RecurrenceKeys))
        /\ Truthy(FirstTruthy(find_all(arg, RecurrenceKeys), <<"cron", "cron_expr", "cron_expression">>)) =>
             ret[1] = JStr("CRON " \o PyStr(FirstTruthy(find_all(arg, RecurrenceKeys),
                                                         <<"cron", "cron_expr", "cron_expression">>)))
        /\ arg = SchedA => ret[1] = JStr("WEEKLY 02:30 MONDAY,WEDNESDAY,FRIDAY")

\* a value of state, status or of the recursive search as a boolean
Coerced(value) ==
    IF IsBool(value) THEN value.b
    ELSE IsStr(value) /\ Lower(value.s) \in {"true", "enabled", "enable", "on", "active", "1"}

\* the value the recursive search found for the first of enabled, enable,
\* state, status it found a value for
FirstFound(schedule) ==
    LET found == find_all(schedule, {"enabled", "enable", "state", "status"})
    IN IF HasKey(found, "enabled") THEN Get(found, "enabled")
       ELSE IF HasKey(found, "enable") THEN Get(found, "enable")
       ELSE IF HasKey(found, "state") THEN Get(found, "state")
       ELSE Get(found, "status")

\* C20: get_enabled follows a strict chain: a top-level enabled or enable key
\* decides alone; else a top-level state or status that is a boolean, or a
\* string among the enabling words, decides; else the first value the
\* recursive search found decides, coerced as state and status are; else false
C20_EnabledPriority ==
    pc = "enabled" =>
        ret[1] = JBool(
            IF HasKey(arg, "enabled") THEN Truthy(Get(arg, "enabled"))
            ELSE IF HasKey(arg, "enable") THEN Truthy(Get(arg, "enable"))
            ELSE IF IsBool(Get(arg, "state")) \/ Coerced(Get(arg, "state"))
            THEN Coerced(Get(arg, "state"))
            ELSE IF IsBool(Get(arg, "status")) \/ Coerced(Get(arg, "status"))
            THEN Coerced(Get(arg, "status"))
            ELSE Coerced(FirstFound(arg)))

----------------------------------------------------------------------------
(* Properties of unwrap_api_payload and normalize_schedules, continued     *)

\* C17: unwrap_api_payload returns the entry under `value` when its input is a
\* mapping with the key `value` and at most 3 keys, and its input unchanged in
\* every other case
C17_UnwrapExactly ==
    Len(ret) >= 1 =>
        IF arg.t = "dict" /\ (\E i \in 1..Len(arg.d) : arg.d[i].k = "value") /\ Len(arg.d) <= 3
        THEN \E i \in 1..Len(arg.d) : arg.d[i].k = "value" /\ ret[1] = arg.d[i].v
        ELSE ret[1] = arg

\* a mapping of three keys, `value` among them, gave up its value
C17_Witness ==
    /\ Len(ret) >= 1 /\ arg.t = "dict" /\ Len(arg.d) = 3
    /\ \E i \in 1..Len(arg.d) : arg.d[i].k = "value" /\ ret[1] = arg.d[i].v
    /\ ret[1] # arg

\* the records of an id-keyed mapping: the entries that are mappings, each
\* with its key as `id` unless it has an `id`
RECURSIVE IdRecords(_)
IdRecords(es) ==
    IF es = <<>> THEN <<>>
    ELSE (IF Head(es).v.t # "dict" THEN <<>>
          ELSE IF \E i \in 1..Len(Head(es).v.d) : Head(es).v.d[i].k = "id" THEN <<Head(es).v>>
          ELSE <<JDict(Append(Head(es).v.d, KV("id", JStr(Head(es).k))))>>)
         \o IdRecords(Tail(es))

\* C18: for a mapping without a `schedules` key that is no envelope,
\* normalize_schedules returns one record for each entry whose value is a
\* mapping, in the order of the mapping: the value, with the outer key as
\* `id` when it has no `id`
C18_IdKeyedRecords ==
    (/\ pc = "done" /\ arg.t = "dict"
     /\ \A i \in 1..Len(arg.d) : arg.d[i].k # "schedules"
     /\ ~((\E i \in 1..Len(arg.d) : arg.d[i].k = "value") /\ Len(arg.d) <= 3)) =>
        ret[1] = IdRecords(arg.d)

\* an id-keyed mapping with an entry without `id`, an entry that is no
\* mapping and an entry with an `id` of its own was normalized
C18_Witness ==
    /\ pc = "done" /\ arg = SchedMap
    /\ Len(ret[1]) = 2
    /\ Get(ret[1][1], "id") = JStr("daily")
    /\ Get(ret[1][2], "id") = JStr("w1")

----------------------------------------------------------------------------
(* Properties of the job summary, checked under SpecJob                    *)

\* the candidate sorted first: the first of those no candidate outranks
SelectedIndex(candidates) ==
    CHOOSE i \in 1..Len(candidates) :
        /\ IsGreatest(candidates, i)
        /\ \A j \in 1..(i - 1) : ~IsGreatest(candidates, j)

\* instant a is before instant b
Before(a, b) ==
    \/ a.d < b.d
    \/ (a.d = b.d /\ a.s < b.s)
    \/ (a.d = b.d /\ a.s = b.s /\ a.us < b.us)

\* the whole seconds from start to end, for an end that is not before start
WholeSeconds(start, end) ==
    (end.d - start.d) * 86400 + (end.s - start.s) - (IF end.us < start.us THEN 1 ELSE 0)

\* "<h>h <m>m <s>s" without leading zero units
Hms(total) ==
    (IF total >= 3600 THEN ToString(total \div 3600) \o "h " ELSE "")
    \o (IF total >= 60 THEN ToString((total % 3600) \div 60) \o "m " ELSE "")
    \o ToString(total % 60) \o "s"

\* the duration_str the rule gives a candidate
DurationRule(start, end, duration) ==
    IF start.ok /\ end.ok /\ ~Before(end, start) THEN Hms(WholeSeconds(start, end))
    ELSE IF duration # JNull THEN format_seconds(duration)
    ELSE "N/A"

\* C21: the duration_str of the selected candidate is end minus start as
\* "<h>h <m>m <s>s" without leading zero units when both timestamps parse and
\* end is not before start; else its `duration` field formatted the same way
\* when it has one; else "N/A".  900 seconds give "15m 0s"
C21_DurationRule ==
    (pc = "done" /\ collect_job_candidates(arg) # <<>>) =>
        /\ ret[1].duration_str =
             DurationRule(
                parse_time(FirstTruthy(collect_job_candidates(arg)[SelectedIndex(collect_job_candidates(arg))], StartKeys)).dt,
                parse_time(FirstTruthy(collect_job_candidates(arg)[SelectedIndex(collect_job_candidates(arg))], EndKeys)).dt,
                Get(collect_job_candidates(arg)[SelectedIndex(collect_job_candidates(arg))], "duration"))
        /\ arg = JobOk => ret[1].duration_str = "15m 0s"

----------------------------------------------------------------------------
(* Properties of extract_retention, continued                              *)

\* the non-empty values found under the key `days` anywhere in a node tree
RECURSIVE DaysValues(_)
DaysValues(node) ==
    IF node.t = "dict"
    THEN UNION {(IF node.d[i].k = "days" /\ node.d[i].v \notin {JNull, JStr(""), JList(<<>>)}
                 THEN {node.d[i].v} ELSE {})
                \cup DaysValues(node.d[i].v) : i \in 1..Len(node.d)}
    ELSE IF node.t = "list" THEN UNION {DaysValues(node.l[i]) : i \in 1..Len(node.l)}
    ELSE {}

\* C22: for a schedule whose subtree holds a non-empty `days` value, a list of
\* days of the week included, the result of extract_retention contains
\* "days=<that value>" and is not "N/A", whether or not the schedule defines
\* a retention
C22_DaysShared ==
    (pc = "retention" /\ DaysValues(arg) # {}) =>
        /\ ret[1] # JStr("N/A")
        /\ \E v \in DaysValues(arg) :
             /\ v = Get(find_all(arg, {"days"}), "days")
             /\ \E i \in 1..Len(ret[1].s) :
                  SubSeq(ret[1].s, i, i + Len("days=" \o PyStr(v)) - 1) = "days=" \o PyStr(v)

\* a schedule without any retention key, its days of the week reported as a
\* retention
C22_Witness ==
    /\ pc = "retention" /\ arg = SchedA
    /\ DaysValues(arg) = {JList(<<JInt(1), JInt(3), JInt(5)>>)}
    /\ ret[1] = JStr("days=[1, 3, 5]")

\* C23: the timestamp in a `_job_id` ranks a candidate and is never shown:
\* when no end field of the selected candidate parses and its end_score came
\* from the prefix of its `_job_id`, the summary has end_str "N/A", and its
\* duration_str is the formatted `duration` field when there is one, else "N/A"
C23_IdStampNotShown ==
    (/\ pc = "done" /\ collect_job_candidates(arg) # <<>>
     /\ ~parse_time(FirstTruthy(collect_job_candidates(arg)[SelectedIndex(collect_job_candidates(arg))], EndKeys)).dt.ok
     /\ StartsWithStamp(PyStr(GetD(collect_job_candidates(arg)[SelectedIndex(collect_job_candidates(arg))],
                                   "_job_id", JStr(""))))) =>
        /\ ret[1].end_str = "N/A"
        /\ ret[1].duration_str =
             IF Get(collect_job_candidates(arg)[SelectedIndex(collect_job_candidates(arg))], "duration") # JNull
             THEN format_seconds(Get(collect_job_candidates(arg)[SelectedIndex(collect_job_candidates(arg))], "duration"))
             ELSE "N/A"

\* the entry with the later date in its key was selected; its summary shows
\* no end and the duration of its `duration` field
C23_Witness ==
    /\ pc = "done" /\ arg = JobIds
    /\ ret[1].status = "FAILED"
    /\ ret[1].end_str = "N/A"
    /\ ret[1].duration_str = "1m 30s"

====
